---- MODULE Spec2Model ----
(***************************************************************************)
(* Vision Digital Twin automation layer: the host extension that triggers  *)
(* the bootstrap on scene-open, the Bootstrap Loader pass (capability      *)
(* discovery, sequential execution, stop-all-then-start-all watcher        *)
(* rebind), the watcher singletons, and the light-node synchronisation     *)
(* callbacks (Light Watcher, Color Sync, LED Color Sync).                  *)
(*                                                                         *)
(* Scenes (USD stages) are identified by positive integers; 0 stands for   *)
(* Python's None.  File names are sequences of character codes so that     *)
(* the loader's lexicographic sort is computed, not assumed.               *)
(***************************************************************************)
EXTENDS Integers, Sequences, FiniteSets, TLC

\* ------------------------------------------------------------------------
\* Bounds of the model
\* ------------------------------------------------------------------------
MaxStages == 3
MaxEvents == 2
MaxTasks == 2
MaxLights == 1
MaxEdits == 3
MaxNesting == 4
MaxImports == 2
MaxPaths == 2
MaxPending == 2

\* ------------------------------------------------------------------------
\* Program constants
\* ------------------------------------------------------------------------
SettleFrames == 5

NoStage == 0

\* Character codes of the file names used in the capability directory.
F_00_a == <<48, 48, 95, 97, 46, 112, 121>>
F_10_b == <<49, 48, 95, 98, 46, 112, 121>>
F_disabled_05_c == <<95, 100, 105, 115, 97, 98, 108, 101, 100, 95, 48, 53, 95, 99, 46, 112, 121>>
F_init == <<95, 95, 105, 110, 105, 116, 95, 95, 46, 112, 121>>
F_notes_txt == <<110, 111, 116, 101, 115, 46, 116, 120, 116>>

DotPy == <<46, 112, 121>>
Underscore == 95

\* Files that are always present in the modelled directory, and the files
\* an administrator adds, removes or renames while the application runs.
FixedFiles == {F_init, F_disabled_05_c, F_notes_txt}
ToggleFiles == {F_00_a, F_10_b}

\* Variant: the colour-sync blocks placed before the light-watcher blocks.
WatcherOrder_Swapped == <<"color", "light", "led", "camera", "lens", "zemax">>

WatcherOrder == <<"light", "color", "led", "camera", "lens", "zemax">>
SceneBound == {"light", "color", "led", "camera", "lens"}

\* What a capability file turns out to do when it is loaded and run.
LoaderKinds == {"load_fail", "raise", "ret_none", "ret_tuple_fail"}
ExtKinds == {"ret_tuple_ok", "raise"}

VARIABLES
    hostStage,            \* omni.usd.get_context().get_stage(): current scene, 0 = None
    nextStageId,          \* identity of the next scene the host creates
    stageEvents,          \* host stage-event stream, not yet popped
    extension,            \* CreateSetupExtension: subscription and loader
    tasks,                \* pending _run_bootstrap_async tasks: frames awaited
    capDir,               \* file names in the capabilities directory
    pc,                   \* position inside run_all_capabilities
    caller,               \* who invoked the pass: "ext" or "direct"
    passStage,            \* local `stage` of run_all_capabilities
    capability_files,     \* local `capability_files`
    idx,                  \* loop position (capability or watcher index)
    loaded_capabilities,  \* BootstrapLoader.loaded_capabilities
    capLog,               \* capabilities begun/ended in this pass
    watcherLog,           \* stop/start calls issued in this pass
    result,               \* value returned by run_all_capabilities
    watchers,             \* the five scene-bound watcher singletons
    zemax,                \* the Zemax file watcher singleton
    lastRebind,           \* scene of the last completed rebind
    opens,                \* scene-open events emitted by the host
    handled,              \* bootstrap tasks that ran to their end
    lastOutcome,          \* how the last bootstrap task ended
    prims,                \* nodes of the current scene with their attributes
    edits,                \* operator edits made so far
    registrations,        \* host registry: live ObjectsChanged listeners per watcher
    lastCall,             \* the last start/stop call made from the script console
    camera,               \* the camera node of the current scene
    files,                \* archive files of the drop directory
    processed,            \* zemax_file_watcher._processed_files
    library,              \* lens ids of the Lens Library index
    lastImported,         \* zemax_file_watcher._last_imported_lens_id
    attempts,             \* imports of a path by polls since the last reset
    lensLib,              \* one LensLibrary instance with the files of its directory
    menus,                \* the extension's settings, menu and layout registrations
    docCache,             \* DocCache: the entry files of the cache directory
    toolCall,             \* the documentation server's last tool call
    camNode,              \* a camera node with its attributes, as the callbacks see it
    proto,                \* the prototype creation watcher with the lights of its scene
    metersPerUnit         \* linear-unit scale of the open scene, in 1e-5 m

bootVars == <<hostStage, nextStageId, stageEvents, extension, tasks, capDir, pc,
              caller, passStage, capability_files, idx, loaded_capabilities,
              capLog, watcherLog, result, watchers, zemax, lastRebind, opens,
              handled, lastOutcome>>

sceneVars == <<prims, edits>>

\* State followed only by the specifications of the single components.
\* State of the camera callbacks and of the prototype creation watcher.
protoVars == <<camNode, proto>>

compVars == <<lensLib, menus, docCache, toolCall, metersPerUnit, protoVars>>

auxVars == <<registrations, lastCall, compVars>>

\* Cameras, the drop directory and the Lens Library.
libVars == <<camera, files, processed, library, lastImported, attempts>>

vars == <<bootVars, sceneVars, auxVars, libVars>>

\* ------------------------------------------------------------------------
\* Helpers
\* ------------------------------------------------------------------------
Min(a, b) == IF a < b THEN a ELSE b

Perms(S) == {s \in [1..Cardinality(S) -> S] : \A i, j \in 1..Cardinality(S) : s[i] = s[j] => i = j}

\* Python's str ordering: code point by code point, a proper prefix first.
RECURSIVE NameLess(_, _)
NameLess(a, b) ==
    IF b = <<>> THEN FALSE
    ELSE IF a = <<>> THEN TRUE
    ELSE IF a[1] < b[1] THEN TRUE
    ELSE IF a[1] > b[1] THEN FALSE
    ELSE NameLess(Tail(a), Tail(b))

EndsWithPy(f) == Len(f) >= 3 /\ SubSeq(f, Len(f) - 2, Len(f)) = DotPy

StartsWithUnderscore(f) == Len(f) >= 1 /\ f[1] = Underscore

Stem(f) == SubSeq(f, 1, Len(f) - 3)

RECURSIVE InsertByName(_, _)
InsertByName(f, s) ==
    IF s = <<>> THEN <<f>>
    ELSE IF NameLess(f, Head(s)) THEN <<f>> \o s
    ELSE <<Head(s)>> \o InsertByName(f, Tail(s))

RECURSIVE SortByName(_)
SortByName(s) ==
    IF s = <<>> THEN <<>>
    ELSE InsertByName(s[Len(s)], SortByName(SubSeq(s, 1, Len(s) - 1)))

\* Variant: the sort is left out, the glob order is used as it comes.
SortCapabilityFiles_Unsorted(s) == s

\* capability_files.sort(key=lambda x: x.name)
SortCapabilityFiles(s) == SortByName(s)

\* Variant: only __init__.py is left out.
FilterCapabilityFiles_KeepsUnderscore(globbed) == SelectSeq(globbed, LAMBDA f : f /= F_init)

\* The list comprehension of discover_capabilities over one glob order.
FilterCapabilityFiles(globbed) ==
    SelectSeq(globbed, LAMBDA f : f /= F_init /\ ~StartsWithUnderscore(f))

\* glob("*.py") returns the matching files in an order the OS chooses.
GlobOrders(dir) == Perms({f \in dir : EndsWithPy(f)})

discover_capabilities(globbed) == SortCapabilityFiles(FilterCapabilityFiles(globbed))

\* ------------------------------------------------------------------------
\* Bootstrap Loader
\* ------------------------------------------------------------------------

\* module.run() is reached only when the module loaded and exposes the three
\* required attributes.
RunsRunFunction(kind) == kind \notin {"load_fail", "no_name", "no_desc", "no_run"}

\* What run returns, by kind: None, True, False, the string 's', the
\* tuples (True, 'm') and (False, 'm'), the integer 42, a three-element
\* tuple.
ReturnKinds ==
    {"ret_none", "ret_true", "ret_false", "ret_str", "ret_tuple_ok", "ret_tuple_fail",
     "ret_int", "ret_tuple_3"}

\* str(result), as the f-string of the last branch formats it.
ReturnText(kind) ==
    CASE kind = "ret_none" -> "None"
      [] kind = "ret_true" -> "True"
      [] kind = "ret_false" -> "False"
      [] kind = "ret_str" -> "s"
      [] kind = "ret_tuple_ok" -> "(True, 'm')"
      [] kind = "ret_tuple_fail" -> "(False, 'm')"
      [] kind = "ret_int" -> "42"
      [] OTHER -> "(True, 'm', 1)"

\* Variant: `result is None` alone gives "Success".
NormalizeReturn_OnlyNone(kind) ==
    IF kind = "ret_none" THEN [success |-> TRUE, message |-> "Success"]
    ELSE IF kind = "ret_str" THEN [success |-> TRUE, message |-> ReturnText(kind)]
    ELSE IF kind \in {"ret_tuple_ok", "ret_tuple_fail"}
    THEN [success |-> kind = "ret_tuple_ok", message |-> "m"]
    ELSE [success |-> FALSE, message |-> "Invalid return value: " \o ReturnText(kind)]

\* The if/elif chain after `result = module.run()`.
NormalizeReturn(kind) ==
    IF kind \in {"ret_none", "ret_true"} THEN [success |-> TRUE, message |-> "Success"]
    ELSE IF kind = "ret_str" THEN [success |-> TRUE, message |-> ReturnText(kind)]
    ELSE IF kind \in {"ret_tuple_ok", "ret_tuple_fail"}
    THEN [success |-> kind = "ret_tuple_ok", message |-> "m"]
    ELSE [success |-> FALSE, message |-> "Invalid return value: " \o ReturnText(kind)]

\* Variant: the exception guard reports a raised exception as a success.
execute_capability_SwallowsException(kind) ==
    CASE kind = "no_name" -> [success |-> FALSE, message |-> "Missing CAPABILITY_NAME attribute"]
      [] kind = "no_desc" -> [success |-> FALSE, message |-> "Missing CAPABILITY_DESCRIPTION attribute"]
      [] kind = "no_run" -> [success |-> FALSE, message |-> "Missing run() function"]
      [] kind = "raise" -> [success |-> TRUE, message |-> "Success"]
      [] OTHER -> NormalizeReturn(kind)

\* execute_capability: attribute checks, the call, result normalisation and
\* the exception guard.
execute_capability(kind) ==
    CASE kind = "no_name" -> [success |-> FALSE, message |-> "Missing CAPABILITY_NAME attribute"]
      [] kind = "no_desc" -> [success |-> FALSE, message |-> "Missing CAPABILITY_DESCRIPTION attribute"]
      [] kind = "no_run" -> [success |-> FALSE, message |-> "Missing run() function"]
      [] kind = "raise" -> [success |-> FALSE, message |-> "Exception: e"]
      [] OTHER -> NormalizeReturn(kind)

\* One iteration of the capability loop: load_capability_module, then
\* execute_capability, then the append to loaded_capabilities.
CapabilityRecord(f, kind) ==
    IF kind = "load_fail"
    THEN [name |-> Stem(f), success |-> FALSE, message |-> "Failed to load module"]
    ELSE [name |-> Stem(f), success |-> execute_capability(kind).success,
          message |-> execute_capability(kind).message]

\* The scene a capability's run() works on: execute_capability calls
\* module.run() without arguments, so run(stage=None) resolves the host's
\* current scene itself.
CapabilityStage(kind, supplied, current) ==
    IF RunsRunFunction(kind) THEN current ELSE NoStage

CountSuccessful(recs) == Cardinality({i \in 1..Len(recs) : recs[i].success})

ResultOf(recs) ==
    [total |-> Len(recs), successful |-> CountSuccessful(recs),
     failed |-> Len(recs) - CountSuccessful(recs), capabilities |-> recs]

EmptyResult == [total |-> 0, successful |-> 0, failed |-> 0, capabilities |-> <<>>]

NoResult == [total |-> -1, successful |-> -1, failed |-> -1, capabilities |-> <<>>]

\* ------------------------------------------------------------------------
\* Watcher singletons
\* ------------------------------------------------------------------------
NewWatcher == [instance |-> FALSE, enabled |-> FALSE, stage |-> NoStage, listener |-> NoStage]

\* start(stage) of LightWatcher, ColorSync, LEDColorSync, CameraWatcher and
\* LensSync (identical bodies): no-op when enabled; resolve the current scene
\* when none is given; give up without a scene; otherwise record the scene,
\* register the listener on it and enable.
WatcherStart(w, stage, current) ==
    IF w.enabled THEN w
    ELSE LET s == IF stage = NoStage THEN current ELSE stage
         IN IF s = NoStage THEN w
            ELSE [w EXCEPT !.stage = s, !.listener = s, !.enabled = TRUE]

\* Variant: stop() forgets to clear the enabled flag.
WatcherStop_KeepsEnabled(w) == [w EXCEPT !.listener = NoStage, !.stage = NoStage]

\* stop(): revoke the listener, clear the scene reference, disable.
WatcherStop(w) == [w EXCEPT !.listener = NoStage, !.stage = NoStage, !.enabled = FALSE]

\* Module-level start_xxx(stage): get or create the singleton, then start.
start_watching(w, stage, current) == WatcherStart([w EXCEPT !.instance = TRUE], stage, current)

\* Module-level stop_xxx(): stop the singleton if it exists.
stop_watching(w) == IF w.instance THEN WatcherStop(w) ELSE w

NewZemax == [instance |-> FALSE, enabled |-> FALSE, subscription |-> FALSE]

\* ZemaxFileWatcher.start(): no-op when enabled; needs the drop directory.
ZemaxStart(z, dirOk) ==
    IF z.enabled THEN [z EXCEPT !.instance = TRUE]
    ELSE IF ~dirOk THEN [z EXCEPT !.instance = TRUE]
    ELSE [instance |-> TRUE, enabled |-> TRUE, subscription |-> TRUE]

\* ZemaxFileWatcher.stop() behind stop_watching().
ZemaxStop(z) ==
    IF ~z.instance \/ ~z.enabled THEN z
    ELSE [z EXCEPT !.subscription = FALSE, !.enabled = FALSE]

\* ------------------------------------------------------------------------
\* Initial state: the application has started, no scene has been opened,
\* no watcher singleton exists yet.
\* ------------------------------------------------------------------------
NoOutcome == [kind |-> "none", stage |-> NoStage, current |-> NoStage, total |-> 0, rebound |-> FALSE]

PassLocalsIdle ==
    /\ pc = "idle"
    /\ caller = "none"
    /\ passStage = NoStage
    /\ capability_files = <<>>
    /\ idx = 0
    /\ capLog = <<>>
    /\ watcherLog = <<>>
    /\ result = NoResult

\* What on_startup registers with the host besides the scene-open
\* subscription: the scene-delegate settings subscription, the menu layout,
\* the three Layout menu entries, the Help menu's Documentation item.
LayoutEntries == {"Layout/Reset Layout", "Layout/Quick Save", "Layout/Quick Load"}

SetupRegistrations ==
    {"fabric_delegate_changed", "menu_layout", "Help/Documentation"} \cup LayoutEntries

\* The extension object before on_startup: host is what the host holds for
\* it, layout_menu_items the extension's own list.
NewSetup == [phase |-> "new", host |-> {}, layout_menu_items |-> {}]

\* on_startup, without the bootstrap part: nothing is registered in warm-up
\* mode.
on_startup(S, warmup) ==
    IF warmup THEN [S EXCEPT !.phase = "warmup"]
    ELSE [phase |-> "started", host |-> S.host \cup SetupRegistrations,
          layout_menu_items |-> LayoutEntries]

\* What on_shutdown releases: the settings subscription (its reference is
\* dropped), the menu layout, and the entries of _layout_menu_items.
Released(S) == {"fabric_delegate_changed", "menu_layout"} \cup S.layout_menu_items

\* The instance attributes on_startup has assigned when it returns: only
\* _settings on the warm-up path.
Assigned(S) ==
    IF S.phase = "started"
    THEN {"_settings", "_menu_layout", "_bootstrap_loader", "_stage_event_subscription",
          "_sub_fabric_delegate_changed", "_layout_menu_items", "_help_menu_items"}
    ELSE IF S.phase = "warmup" THEN {"_settings"}
    ELSE {}

\* The attributes on_shutdown reads; the others it only assigns.
ShutdownReads == {"_stage_event_subscription", "_menu_layout", "_layout_menu_items"}

\* Phase "raised": the read of an attribute that was never assigned raises
\* AttributeError out of on_shutdown, before anything is released.
on_shutdown(S) ==
    IF ShutdownReads \subseteq Assigned(S)
    THEN [phase |-> "shutdown", host |-> S.host \ Released(S), layout_menu_items |-> {}]
    ELSE [S EXCEPT !.phase = "raised"]

BootInit(subscribed, opened) ==
    /\ menus = (IF subscribed THEN on_startup(NewSetup, FALSE) ELSE NewSetup)
    /\ hostStage = (IF opened THEN 1 ELSE NoStage)
    /\ nextStageId = (IF opened THEN 2 ELSE 1)
    /\ stageEvents = <<>>
    /\ extension = [subscription |-> subscribed, loader |-> subscribed]
    /\ tasks = <<>>
    /\ capDir = FixedFiles \cup ToggleFiles
    /\ PassLocalsIdle
    /\ loaded_capabilities = <<>>
    /\ watchers = [w \in SceneBound |-> NewWatcher]
    /\ zemax = NewZemax
    /\ lastRebind = NoStage
    /\ opens = 0
    /\ handled = 0
    /\ lastOutcome = NoOutcome

\* ------------------------------------------------------------------------
\* Host and operator actions
\* ------------------------------------------------------------------------

\* The operator opens or creates a scene: the host replaces its current scene
\* by a new scene object and emits OPENED to the subscribers of the stream.
OpenStage ==
    /\ pc = "idle"
    /\ nextStageId <= MaxStages
    /\ extension.subscription => Len(stageEvents) < MaxEvents
    /\ hostStage' = nextStageId
    /\ nextStageId' = nextStageId + 1
    /\ stageEvents' = IF extension.subscription THEN Append(stageEvents, "OPENED") ELSE stageEvents
    /\ opens' = IF extension.subscription THEN opens + 1 ELSE opens
    /\ UNCHANGED <<extension, tasks, capDir, pc, caller, passStage, capability_files, idx,
                   loaded_capabilities, capLog, watcherLog, result, watchers, zemax,
                   lastRebind, handled, lastOutcome>>
    /\ UNCHANGED <<sceneVars, auxVars, libVars>>

\* The operator closes the scene: the host has no current scene and emits CLOSED.
CloseStage ==
    /\ pc = "idle"
    /\ hostStage /= NoStage
    /\ extension.subscription => Len(stageEvents) < MaxEvents
    /\ hostStage' = NoStage
    /\ stageEvents' = IF extension.subscription THEN Append(stageEvents, "CLOSED") ELSE stageEvents
    /\ UNCHANGED <<nextStageId, extension, tasks, capDir, pc, caller, passStage,
                   capability_files, idx, loaded_capabilities, capLog, watcherLog, result,
                   watchers, zemax, lastRebind, opens, handled, lastOutcome>>
    /\ UNCHANGED <<sceneVars, auxVars, libVars>>

\* An administrator enables or disables a capability by adding or removing
\* (renaming to an underscore name) its file.
EditCapabilityDir(toggle) ==
    /\ pc = "idle"
    /\ \E f \in toggle :
          capDir' = IF f \in capDir THEN capDir \ {f} ELSE capDir \cup {f}
    /\ UNCHANGED <<hostStage, nextStageId, stageEvents, extension, tasks, pc, caller,
                   passStage, capability_files, idx, loaded_capabilities, capLog,
                   watcherLog, result, watchers, zemax, lastRebind, opens, handled,
                   lastOutcome>>
    /\ UNCHANGED <<sceneVars, auxVars, libVars>>

\* ------------------------------------------------------------------------
\* Host extension
\* ------------------------------------------------------------------------

\* Variant: the handler compares against the wrong event type.
SchedulesBootstrap_WrongEvent(event, ext) == event = "CLOSED" /\ ext.loader

\* _on_stage_event: only OPENED with a loader schedules _run_bootstrap_async.
SchedulesBootstrap(event, ext) == event = "OPENED" /\ ext.loader

OnStageEvent ==
    /\ pc = "idle"
    /\ extension.subscription
    /\ stageEvents /= <<>>
    /\ SchedulesBootstrap(Head(stageEvents), extension) => Len(tasks) < MaxTasks
    /\ stageEvents' = Tail(stageEvents)
    /\ tasks' = IF SchedulesBootstrap(Head(stageEvents), extension)
                THEN Append(tasks, 0) ELSE tasks
    /\ UNCHANGED <<hostStage, nextStageId, extension, capDir, pc, caller, passStage,
                   capability_files, idx, loaded_capabilities, capLog, watcherLog, result,
                   watchers, zemax, lastRebind, opens, handled, lastOutcome>>
    /\ UNCHANGED <<sceneVars, auxVars, libVars>>

\* One host update frame: every task waiting in next_update_async advances.
AwaitFrame(t) == Min(t + 1, SettleFrames)

HostUpdate ==
    /\ pc = "idle"
    /\ tasks /= <<>>
    /\ \A i \in 1..Len(tasks) : tasks[i] < SettleFrames
    /\ tasks' = [i \in 1..Len(tasks) |-> AwaitFrame(tasks[i])]
    /\ UNCHANGED <<hostStage, nextStageId, stageEvents, extension, capDir, pc, caller,
                   passStage, capability_files, idx, loaded_capabilities, capLog,
                   watcherLog, result, watchers, zemax, lastRebind, opens, handled,
                   lastOutcome>>
    /\ UNCHANGED <<sceneVars, auxVars, libVars>>

\* on_startup of a new extension object: the registrations, and the loader
\* with the scene-open subscription when the bootstrap package and its
\* capability directory are found.
OnStartup ==
    /\ pc = "idle"
    /\ menus.phase \in {"new", "shutdown", "raised"}
    /\ \E warmup \in BOOLEAN, bootstrap \in BOOLEAN :
          /\ menus' = on_startup(menus, warmup)
          /\ extension' = IF warmup THEN extension
                          ELSE [subscription |-> bootstrap, loader |-> bootstrap]
    /\ UNCHANGED <<hostStage, nextStageId, stageEvents, tasks, capDir, pc, caller, passStage,
                   capability_files, idx, loaded_capabilities, capLog, watcherLog, result,
                   watchers, zemax, lastRebind, opens, handled, lastOutcome>>
    /\ UNCHANGED <<sceneVars, registrations, lastCall, lensLib, docCache, toolCall, protoVars,
                   metersPerUnit, libVars>>

\* on_shutdown: drop the scene-open subscription and the loader, remove
\* the menu layout and the Layout menu entries.
OnShutdown ==
    /\ pc = "idle"
    /\ menus.phase \in {"started", "warmup"}
    /\ extension' = [subscription |-> FALSE, loader |-> FALSE]
    /\ menus' = on_shutdown(menus)
    /\ stageEvents' = <<>>
    /\ UNCHANGED <<hostStage, nextStageId, tasks, capDir, pc, caller, passStage,
                   capability_files, idx, loaded_capabilities, capLog, watcherLog, result,
                   watchers, zemax, lastRebind, opens, handled, lastOutcome>>
    /\ UNCHANGED <<sceneVars, registrations, lastCall, lensLib, docCache, toolCall, protoVars,
                   metersPerUnit, libVars>>

\* ------------------------------------------------------------------------
\* run_all_capabilities, step by step.  The pass runs synchronously on the
\* host's main thread: while pc /= "idle" no other action is enabled.
\* ------------------------------------------------------------------------

\* Entry: reset the records, resolve the scene, discover; return early when
\* nothing was discovered.
RunAllBegin(stage, who, globbed) ==
    /\ loaded_capabilities' = <<>>
    /\ passStage' = IF stage = NoStage THEN hostStage ELSE stage
    /\ caller' = who
    /\ capLog' = <<>>
    /\ watcherLog' = <<>>
    /\ IF discover_capabilities(globbed) = <<>>
       THEN /\ pc' = "ret"
            /\ result' = EmptyResult
            /\ capability_files' = <<>>
            /\ idx' = 0
       ELSE /\ pc' = "loop"
            /\ result' = NoResult
            /\ capability_files' = discover_capabilities(globbed)
            /\ idx' = 1

\* _run_bootstrap_async after its settle delay.
RunBootstrapAsync ==
    /\ pc = "idle"
    /\ tasks /= <<>>
    /\ Head(tasks) = SettleFrames
    /\ IF hostStage /= NoStage /\ extension.loader
       THEN /\ \E g \in GlobOrders(capDir) : RunAllBegin(hostStage, "ext", g)
            /\ UNCHANGED <<tasks, handled, lastOutcome>>
       ELSE /\ tasks' = Tail(tasks)
            /\ handled' = handled + 1
            /\ lastOutcome' = [NoOutcome EXCEPT
                                  !.kind = IF hostStage = NoStage THEN "nostage" ELSE "noloader",
                                  !.current = hostStage]
            /\ UNCHANGED <<pc, caller, passStage, capability_files, idx,
                           loaded_capabilities, capLog, watcherLog, result>>
    /\ UNCHANGED <<hostStage, nextStageId, stageEvents, extension, capDir, watchers, zemax,
                   lastRebind, opens>>
    /\ UNCHANGED <<sceneVars, auxVars, libVars>>

\* A script calls BootstrapLoader(dir).run_all_capabilities(stage) itself.
DirectCall ==
    /\ pc = "idle"
    /\ \E stage \in 0..(nextStageId - 1) :
          \E g \in GlobOrders(capDir) : RunAllBegin(stage, "direct", g)
    /\ UNCHANGED <<hostStage, nextStageId, stageEvents, extension, tasks, capDir, watchers,
                   zemax, lastRebind, opens, handled, lastOutcome>>
    /\ UNCHANGED <<sceneVars, auxVars, libVars>>

\* One iteration of `for cap_file in capability_files`.
RunCapability(kinds) ==
    /\ pc = "loop"
    /\ \E kind \in kinds :
          /\ loaded_capabilities' =
                 Append(loaded_capabilities, CapabilityRecord(capability_files[idx], kind))
          /\ capLog' = Append(capLog,
                 [name |-> Stem(capability_files[idx]),
                  kind |-> kind,
                  ran |-> RunsRunFunction(kind),
                  stage |-> CapabilityStage(kind, passStage, hostStage),
                  after |-> Len(loaded_capabilities)])
    /\ IF idx = Len(capability_files)
       THEN pc' = "stop" /\ idx' = 1
       ELSE pc' = "loop" /\ idx' = idx + 1
    /\ UNCHANGED <<hostStage, nextStageId, stageEvents, extension, tasks, capDir, caller,
                   passStage, capability_files, watcherLog, result, watchers, zemax,
                   lastRebind, opens, handled, lastOutcome>>
    /\ UNCHANGED <<sceneVars, auxVars, libVars>>

\* One of the six guarded stop blocks.
StopWatcher ==
    /\ pc = "stop"
    /\ watcherLog' = Append(watcherLog, [op |-> "stop", w |-> WatcherOrder[idx]])
    /\ IF WatcherOrder[idx] \in SceneBound
       THEN /\ watchers' = [watchers EXCEPT ![WatcherOrder[idx]] = stop_watching(@)]
            /\ zemax' = zemax
       ELSE /\ zemax' = ZemaxStop(zemax)
            /\ watchers' = watchers
    /\ IF idx = Len(WatcherOrder)
       THEN pc' = "start" /\ idx' = 1
       ELSE pc' = "stop" /\ idx' = idx + 1
    /\ UNCHANGED <<hostStage, nextStageId, stageEvents, extension, tasks, capDir, caller,
                   passStage, capability_files, loaded_capabilities, capLog, result,
                   lastRebind, opens, handled, lastOutcome>>
    /\ UNCHANGED <<sceneVars, auxVars, libVars>>

\* One of the six guarded start blocks; the last one is followed by the
\* construction of the result dictionary.
StartWatcher ==
    /\ pc = "start"
    /\ watcherLog' = Append(watcherLog, [op |-> "start", w |-> WatcherOrder[idx]])
    /\ IF WatcherOrder[idx] \in SceneBound
       THEN /\ watchers' = [watchers EXCEPT ![WatcherOrder[idx]] =
                                start_watching(@, passStage, hostStage)]
            /\ zemax' = zemax
       ELSE /\ \E dirOk \in BOOLEAN : zemax' = ZemaxStart(zemax, dirOk)
            /\ watchers' = watchers
    /\ IF idx = Len(WatcherOrder)
       THEN /\ pc' = "ret"
            /\ idx' = 0
            /\ result' = ResultOf(loaded_capabilities)
            /\ lastRebind' = passStage
       ELSE /\ pc' = "start"
            /\ idx' = idx + 1
            /\ UNCHANGED <<result, lastRebind>>
    /\ UNCHANGED <<hostStage, nextStageId, stageEvents, extension, tasks, capDir, caller,
                   passStage, capability_files, loaded_capabilities, capLog, opens,
                   handled, lastOutcome>>
    /\ UNCHANGED <<sceneVars, auxVars, libVars>>

\* run_all_capabilities returns to its caller; the extension's task logs the
\* status message and ends, a script's loader object is dropped.
PassReturn ==
    /\ pc = "ret"
    /\ pc' = "idle"
    /\ caller' = "none"
    /\ passStage' = NoStage
    /\ capability_files' = <<>>
    /\ idx' = 0
    /\ capLog' = <<>>
    /\ watcherLog' = <<>>
    /\ result' = NoResult
    /\ IF caller = "ext"
       THEN /\ tasks' = Tail(tasks)
            /\ handled' = handled + 1
            /\ lastOutcome' = [kind |-> "pass", stage |-> passStage, current |-> hostStage,
                               total |-> result.total, rebound |-> watcherLog /= <<>>]
            /\ UNCHANGED loaded_capabilities
       ELSE /\ loaded_capabilities' = <<>>
            /\ UNCHANGED <<tasks, handled, lastOutcome>>
    /\ UNCHANGED <<hostStage, nextStageId, stageEvents, extension, capDir, watchers, zemax,
                   lastRebind, opens>>
    /\ UNCHANGED <<sceneVars, auxVars, libVars>>

\* ------------------------------------------------------------------------
\* Scene content: nodes, their attributes, and the host's change notices
\* ------------------------------------------------------------------------

\* The four temperature attributes (color_sync.py WATCHED_ATTRS).
A_overall == "visiondt:overallTemperature"
A_red == "visiondt:redTemperature"
A_green == "visiondt:greenTemperature"
A_blue == "visiondt:blueTemperature"
WATCHED_ATTRS == {A_overall, A_red, A_green, A_blue}

\* Created by capability 45 without a value.
A_iesProfile == "visiondt:iesProfile"

\* LED attributes carried by the model.  The attributes of the LED schema
\* left out (spectralBandwidth, whiteMix, spdDataJson, luminousFlux, the
\* emitter, angle, electrical and info attributes, computedNits and
\* computedExposure, iesProfile) are created and defaulted like the ones
\* below and are only read, or only written, by the synchronisation code.
A_enabled == "visiondt:led:enabled"
A_spdMode == "visiondt:led:spdMode"
A_peak == "visiondt:led:peakWavelength"
A_dominant == "visiondt:led:dominantWavelength"
A_wavelengths == "visiondt:led:spdWavelengths"
A_intensities == "visiondt:led:spdIntensities"
A_csvPath == "visiondt:led:spdCsvPath"
A_spdInfo == "visiondt:led:spdInfo"
A_computedColor == "visiondt:led:computedColor"
A_useLuminous == "visiondt:led:useLuminousIntensity"
A_luminous == "visiondt:led:luminousIntensity"
A_computedIntensity == "visiondt:led:computedIntensity"

\* Native attributes of the host's light schema.
A_color == "inputs:color"
A_enableCT == "inputs:enableColorTemperature"
A_intensity == "inputs:intensity"

LED_COLOR_TRIGGER_ATTRS ==
    {A_enabled, A_spdMode, A_peak, A_dominant, "visiondt:led:spectralBandwidth",
     A_wavelengths, A_intensities, A_csvPath, "visiondt:led:spdDataJson",
     "visiondt:led:whiteMix"}

LED_LUMINOUS_TRIGGER_ATTRS ==
    {A_useLuminous, A_luminous, "visiondt:led:luminousFlux",
     "visiondt:led:emitterWidthMm", "visiondt:led:emitterHeightMm",
     "visiondt:led:viewingAngleH", "visiondt:led:viewingAngleV",
     "visiondt:led:currentRatio"}

LIGHT_TYPES ==
    {"DomeLight", "RectLight", "DiskLight", "SphereLight", "DistantLight", "CylinderLight"}

\* Node types the operator creates in the model: one light type, one other.
PrimTypes == {"RectLight", "Cube"}

BuiltinAttrs == {A_color, A_enableCT, A_intensity}
ArrayAttrs == {A_wavelengths, A_intensities}
CustomAttrs ==
    WATCHED_ATTRS \cup {A_iesProfile} \cup
    {A_enabled, A_spdMode, A_peak, A_dominant, A_wavelengths, A_intensities, A_csvPath,
     A_spdInfo, A_computedColor, A_useLuminous, A_luminous, A_computedIntensity}
AttrNames == CustomAttrs \cup BuiltinAttrs

\* Creation order of LightWatcher._apply_visiondt_attributes.
LW_ATTRS ==
    <<A_overall, A_red, A_green, A_blue, A_enabled, A_spdMode, A_peak, A_dominant,
      A_useLuminous, A_luminous, A_wavelengths, A_intensities, A_csvPath, A_spdInfo,
      A_computedColor, A_computedIntensity>>

\* Attributes the Light Watcher creates without setting a value.
LW_NOT_SET == {A_csvPath}

\* Creation order of capability 40 (configure_light_prim).
TEMP_ATTRS == <<A_overall, A_red, A_green, A_blue>>

\* Creation order of capability 46 (LED_ATTRIBUTES).
LED_ATTRIBUTES ==
    <<A_spdMode, A_peak, A_dominant, A_csvPath, A_wavelengths, A_intensities, A_spdInfo,
      A_enabled, A_computedColor, A_useLuminous, A_luminous, A_computedIntensity>>

DEFAULT_TEMPERATURE == 6500

\* Python's float("nan"), as parsed from a CSV cell.
NaN == -1

\* SetCustomDataByKey calls that follow the creation of an attribute
\* (displayName, displayGroup).
MetaWrites == 2

\* Colours are kept as terms over the inputs they are computed from.
Colour(src, a, b) == [src |-> src, a |-> a, b |-> b]
White == Colour("white", <<>>, <<>>)
Black == Colour("black", <<>>, <<>>)
UserColour == Colour("user", <<>>, <<>>)

calculate_multispectrum_color(o, r, g, b) == Colour("kelvin", <<o, r, g, b>>, <<>>)
led_wavelength_to_rgb(peak, dominant) == Colour("gaussian", <<peak, dominant>>, <<>>)
spd_to_rgb(wl, int) == Colour("spd", wl, int)
led_spec_to_omniverse(mcd) == <<"nits", mcd>>
RawIntensity == <<"raw", 1000>>

NoInfo == [fmt |-> "", pts |-> 0, lo |-> 0, hi |-> 0, peak |-> 0]

\* Value an attribute is given when it is created by the provisioning code;
\* for native attributes, the fallback of the host's light schema.
Default(a) ==
    CASE a \in WATCHED_ATTRS -> DEFAULT_TEMPERATURE
      [] a \in {A_enabled, A_useLuminous, A_enableCT} -> FALSE
      [] a = A_spdMode -> "gaussian"
      [] a \in {A_peak, A_dominant, A_luminous} -> 0
      [] a \in ArrayAttrs -> <<>>
      [] a \in {A_csvPath, A_iesProfile} -> ""
      [] a = A_spdInfo -> NoInfo
      [] a = A_computedColor -> Black
      [] a = A_computedIntensity -> <<"nits", 0>>
      [] a = A_color -> White
      [] a = A_intensity -> RawIntensity

\* Values the operator types into the property panel.  The green and blue
\* temperatures are edited like the red one and are left at their value.
EditValues(a) ==
    CASE a \in {A_overall, A_red} -> {3000, DEFAULT_TEMPERATURE}
      [] a \in {A_enabled, A_useLuminous, A_enableCT} -> BOOLEAN
      [] a = A_spdMode -> {"gaussian", "manual", "csv"}
      [] a = A_peak -> {0, 450}
      [] a = A_dominant -> {0, 520}
      [] a = A_luminous -> {0, 100}
      [] a = A_wavelengths -> {<<>>, <<450, 460>>}
      [] a = A_intensities -> {<<>>, <<50, 100>>}
      [] a = A_csvPath -> {"", "good.csv", "nan.csv", "missing.csv"}
      [] a = A_color -> {White, UserColour}
      [] OTHER -> {}

EditableAttrs == {a \in AttrNames : EditValues(a) /= {}}

\* Custom attributes a script adds to a node that does not carry them yet.
ScriptedAttrs == {A_overall, A_enabled, A_peak}

\* Rows <<wavelength, intensity>> of the CSV files on disk; a missing file
\* has no entry.
CsvFiles ==
    [path \in {"good.csv", "nan.csv"} |->
        IF path = "good.csv" THEN << <<450, 1>>, <<460, 2>> >>
        ELSE << <<450, NaN>>, <<460, 2>> >>]

\* Python's max(list): the running maximum is replaced only when `x > m`
\* is true, which it never is when x or m is NaN.
RECURSIVE PyMaxFrom(_, _, _)
PyMaxFrom(s, i, m) ==
    IF i > Len(s) THEN m
    ELSE PyMaxFrom(s, i + 1, IF s[i] /= NaN /\ m /= NaN /\ s[i] > m THEN s[i] ELSE m)

PyMax(s) == PyMaxFrom(s, 2, s[1])

\* load_spd_from_csv: parse the rows, normalise the intensities to their
\* maximum (kept here in percent) when that maximum compares > 0.
load_spd_from_csv(path) ==
    IF path \notin DOMAIN CsvFiles THEN [ok |-> FALSE, wl |-> <<>>, int |-> <<>>]
    ELSE LET rows == CsvFiles[path]
             wl == [i \in 1..Len(rows) |-> rows[i][1]]
             raw == [i \in 1..Len(rows) |-> rows[i][2]]
             m == PyMax(raw)
         IN [ok |-> TRUE, wl |-> wl,
             int |-> IF m /= NaN /\ m > 0
                     THEN [i \in 1..Len(raw) |->
                              IF raw[i] = NaN THEN NaN ELSE (raw[i] * 100) \div m]
                     ELSE raw]

\* get_spd_info folded into the text written to spdInfo.
SeqMin(s) == CHOOSE x \in {s[i] : i \in 1..Len(s)} : \A j \in 1..Len(s) : x <= s[j]
SeqMax(s) == CHOOSE x \in {s[i] : i \in 1..Len(s)} : \A j \in 1..Len(s) : x >= s[j]
get_spd_info(fmt, wl, int) ==
    [fmt |-> fmt, pts |-> Len(wl), lo |-> SeqMin(wl), hi |-> SeqMax(wl),
     peak |-> wl[CHOOSE i \in 1..Len(int) :
                    int[i] = PyMax(int) /\ \A j \in 1..(i - 1) : int[j] /= PyMax(int)]]

HasNaN(s) == \E i \in 1..Len(s) : s[i] = NaN

\* The host's layer drops a write whose value equals the stored one; two
\* float arrays holding a NaN never compare equal.
HostEqual(a, old, new) == old = new /\ (a \in ArrayAttrs => ~HasNaN(new))

\* A node as the callbacks see it, with the record of the handling in
\* progress: ledRuns counts executions of the LED synchronisation bodies,
\* provisions those of the Light Watcher's _apply_visiondt_attributes,
\* overflow records that the nesting of notices reached MaxNesting, cause
\* names the operation whose handling overflowed.
NewPrim(t) ==
    [typeName |-> t, has |-> {}, unset |-> {}, val |-> [a \in AttrNames |-> Default(a)],
     ledRuns |-> 0, provisions |-> 0, overflow |-> FALSE, cause |-> ""]

\* The node at the start of an operation, and as left when it has returned.
Fresh(p) == [p EXCEPT !.ledRuns = 0, !.provisions = 0, !.overflow = FALSE, !.cause = ""]
Settled(p, op) ==
    [p EXCEPT !.ledRuns = 0, !.provisions = 0, !.cause = IF p.overflow THEN op ELSE ""]

\* prim.GetAttribute(a) is a valid attribute object.
Valid(p, a) == a \in p.has \/ (a \in BuiltinAttrs /\ p.typeName \in LIGHT_TYPES)

\* attr.Get() returned a value (not None).
HasValue(p, a) == Valid(p, a) /\ a \notin p.unset

\* `attr and attr.Get()` for a boolean attribute.
Truthy(p, a) == HasValue(p, a) /\ p.val[a] = TRUE

RECURSIVE Notify(_, _, _, _, _)

\* attr.Set(v): the stored value changes and the host sends an info-only
\* notice for the attribute, unless the write is dropped as a no-op.
SetAttr(p, a, v, W, fuel) ==
    IF p.overflow THEN p
    ELSE IF a \notin p.unset /\ HostEqual(a, p.val[a], v) THEN p
    ELSE Notify([p EXCEPT !.val[a] = v, !.unset = @ \ {a}], a, "info", W, fuel)

\* `if attr: attr.Set(v)`
SetIfValid(p, a, v, W, fuel) == IF Valid(p, a) THEN SetAttr(p, a, v, W, fuel) ELSE p

\* prim.CreateAttribute(a, ...): the attribute exists without a value and
\* the host sends a resync notice for it.
CreateAttr(p, a, W, fuel) ==
    IF p.overflow THEN p
    ELSE Notify([p EXCEPT !.has = @ \cup {a}, !.unset = @ \cup {a}], a, "resync", W, fuel)

\* attr.SetCustomDataByKey(...) / prim.SetCustomData(...): an info-only
\* notice, no attribute value changes.
RECURSIVE SetMeta(_, _, _, _, _)
SetMeta(p, a, n, W, fuel) ==
    IF n = 0 \/ p.overflow THEN p
    ELSE SetMeta(Notify(p, a, "info", W, fuel), a, n - 1, W, fuel)

\* One iteration of the create-if-missing loops of the provisioning code:
\* create, set the default (where the code sets one), write the display
\* metadata.
SetDefault(p, a, noSet, W, fuel) ==
    IF a \in noSet THEN p ELSE SetAttr(p, a, Default(a), W, fuel)

\* Variant: the attribute is created on one visit and given its default
\* on the next one.
ProvisionOne_ValueOnNextVisit(p, a, noSet, W, fuel) ==
    IF a \in p.has THEN SetDefault(p, a, noSet, W, fuel)
    ELSE SetMeta(CreateAttr(p, a, W, fuel), a, MetaWrites, W, fuel)

ProvisionOne(p, a, noSet, W, fuel) ==
    IF a \in p.has THEN p
    ELSE SetMeta(SetDefault(CreateAttr(p, a, W, fuel), a, noSet, W, fuel),
                 a, MetaWrites, W, fuel)

RECURSIVE CreateMissing(_, _, _, _, _, _)
CreateMissing(p, list, i, noSet, W, fuel) ==
    IF i > Len(list) THEN p
    ELSE CreateMissing(ProvisionOne(p, list[i], noSet, W, fuel), list, i + 1, noSet, W, fuel)

\* LightWatcher._apply_visiondt_attributes
apply_visiondt_attributes(p, W, fuel) ==
    CreateMissing([p EXCEPT !.provisions = @ + 1], LW_ATTRS, 1, LW_NOT_SET, W, fuel)

\* LightWatcher._on_objects_changed with _check_and_configure_light
LightWatcher_on_objects_changed(p, a, kind, W, fuel) ==
    IF p.typeName \notin LIGHT_TYPES \/ A_overall \in p.has THEN p
    ELSE apply_visiondt_attributes(p, W, fuel)

\* Variant: the temperatures are not read from the node.
get_temp_NotReRead(p, a) == DEFAULT_TEMPERATURE

\* get_temp / get_val: the attribute's value, 6500 when missing or None.
get_temp(p, a) == IF HasValue(p, a) THEN p.val[a] ELSE DEFAULT_TEMPERATURE

KelvinColour(p) ==
    calculate_multispectrum_color(get_temp(p, A_overall), get_temp(p, A_red),
                                  get_temp(p, A_green), get_temp(p, A_blue))

\* ColorSync._sync_light_color: the native flag is switched off when it is
\* not already False, then the colour computed on entry is applied.
DisableCtUnlessFalse(p, W, fuel) ==
    IF Valid(p, A_enableCT) /\ p.val[A_enableCT] /= FALSE
    THEN SetAttr(p, A_enableCT, FALSE, W, fuel) ELSE p

sync_light_color(p, W, fuel) ==
    SetIfValid(DisableCtUnlessFalse(p, W, fuel), A_color, KelvinColour(p), W, fuel)

\* ColorSync._on_objects_changed: info-only paths of the watched attributes.
ColorSync_on_objects_changed(p, a, kind, W, fuel) ==
    IF kind = "info" /\ a \in WATCHED_ATTRS /\ p.typeName \in LIGHT_TYPES
    THEN sync_light_color(p, W, fuel) ELSE p

\* ------------------------------------------------------------------------
\* LED synchronisation.  The body is four consecutive blocks that share the
\* locals spd_mode and rgb; st carries the node with these locals, done
\* records an early return.
\* ------------------------------------------------------------------------
NoRgb == Colour("none", <<>>, <<>>)

\* spd_mode as read by the synchronisation code.
SpdMode(p) == IF HasValue(p, A_spdMode) /\ p.val[A_spdMode] /= "" THEN p.val[A_spdMode] ELSE "gaussian"

\* csv_path as read by the synchronisation code ("" when falsy).
CsvPath(p) == IF HasValue(p, A_csvPath) THEN p.val[A_csvPath] ELSE ""

\* `list(attr.Get()) if attr and attr.Get() else []`
ArrayOf(p, a) == IF HasValue(p, a) THEN p.val[a] ELSE <<>>

\* `wavelengths and intensities and len(wavelengths) == len(intensities)`
ValidArrays(p) ==
    /\ ArrayOf(p, A_wavelengths) /= <<>>
    /\ ArrayOf(p, A_intensities) /= <<>>
    /\ Len(ArrayOf(p, A_wavelengths)) = Len(ArrayOf(p, A_intensities))

Started(p) == [p |-> p, mode |-> SpdMode(p), rgb |-> NoRgb, done |-> FALSE]

\* The loaded arrays are written to the wavelength and intensity
\* attributes unconditionally, then the summary text.
WriteLoadedSpd(p, res, W, fuel) ==
    SetIfValid(IF Valid(p, A_wavelengths) /\ Valid(p, A_intensities)
               THEN SetAttr(SetAttr(p, A_wavelengths, res.wl, W, fuel),
                            A_intensities, res.int, W, fuel)
               ELSE p,
               A_spdInfo, get_spd_info("CSV", res.wl, res.int), W, fuel)

CsvLoaded(st, res, W, fuel) ==
    IF ~res.ok THEN [st EXCEPT !.mode = "gaussian"]
    ELSE [st EXCEPT !.p = WriteLoadedSpd(st.p, res, W, fuel),
                    !.rgb = spd_to_rgb(res.wl, res.int)]

\* The csv block of LEDColorSync._sync_led_color.
CsvBlock(st, W, fuel) ==
    IF st.mode /= "csv" THEN st
    ELSE IF CsvPath(st.p) = "" THEN [st EXCEPT !.mode = "gaussian"]
    ELSE CsvLoaded(st, load_spd_from_csv(CsvPath(st.p)), W, fuel)

\* The manual block of LEDColorSync._sync_led_color.
ManualBlock(st, W, fuel) ==
    IF st.mode /= "manual" \/ st.rgb /= NoRgb THEN st
    ELSE IF ~ValidArrays(st.p) THEN [st EXCEPT !.mode = "gaussian"]
    ELSE [st EXCEPT
            !.rgb = spd_to_rgb(ArrayOf(st.p, A_wavelengths), ArrayOf(st.p, A_intensities)),
            !.p = SetIfValid(st.p, A_spdInfo,
                             get_spd_info("Manual", ArrayOf(st.p, A_wavelengths),
                                          ArrayOf(st.p, A_intensities)),
                             W, fuel)]

\* The gaussian block: a None wavelength raises TypeError (caught), no
\* wavelength set returns early.
GaussianBlock(st) ==
    IF st.mode /= "gaussian" /\ st.rgb /= NoRgb THEN st
    ELSE LET peak_nm == IF Valid(st.p, A_peak) THEN st.p.val[A_peak] ELSE 0
             dominant_nm == IF Valid(st.p, A_dominant) THEN st.p.val[A_dominant] ELSE 0
         IN IF (Valid(st.p, A_peak) /\ A_peak \in st.p.unset) \/
               (Valid(st.p, A_dominant) /\ A_dominant \in st.p.unset)
            THEN [st EXCEPT !.done = TRUE]
            ELSE IF peak_nm <= 0 /\ dominant_nm <= 0 THEN [st EXCEPT !.done = TRUE]
            ELSE [st EXCEPT !.rgb =
                     led_wavelength_to_rgb(IF peak_nm <= 0 THEN dominant_nm ELSE peak_nm,
                                           IF dominant_nm <= 0 THEN peak_nm ELSE dominant_nm)]

\* The tail of LEDColorSync._sync_led_color: store and apply the colour,
\* switch the native colour-temperature flag off when it is on.
DisableCtIfOn(p, W, fuel) ==
    IF Truthy(p, A_enableCT) THEN SetAttr(p, A_enableCT, FALSE, W, fuel) ELSE p

ApplyNative(p, rgb, W, fuel) ==
    IF ~Valid(p, A_color) THEN p
    ELSE DisableCtIfOn(SetAttr(p, A_color, rgb, W, fuel), W, fuel)

ApplyBlock(st, W, fuel) ==
    IF st.done \/ st.rgb = NoRgb THEN st.p
    ELSE ApplyNative(SetIfValid(st.p, A_computedColor, st.rgb, W, fuel), st.rgb, W, fuel)

\* One more execution of an LED synchronisation body.
Entered(p) == [p EXCEPT !.ledRuns = @ + 1]

\* LEDColorSync._sync_led_color
sync_led_color(p, W, fuel) ==
    IF ~Truthy(p, A_enabled) THEN Entered(p)
    ELSE ApplyBlock(
             GaussianBlock(ManualBlock(CsvBlock(Started(Entered(p)), W, fuel), W, fuel)),
             W, fuel)

\* LEDColorSync._sync_led_luminous
sync_led_luminous(p, W, fuel) ==
    LET mcd == IF Valid(p, A_luminous) THEN p.val[A_luminous] ELSE 0
    IN IF ~Truthy(p, A_useLuminous) THEN Entered(p)
       ELSE IF (Valid(p, A_luminous) /\ A_luminous \in p.unset) \/ mcd <= 0 THEN Entered(p)
       ELSE SetIfValid(SetIfValid(Entered(p), A_computedIntensity,
                                  led_spec_to_omniverse(mcd), W, fuel),
                       A_intensity, led_spec_to_omniverse(mcd), W, fuel)

\* LEDColorSync._on_objects_changed: info-only and resynced paths, matched
\* against the two trigger tables; no reentrancy guard.
OnColourTrigger(p, a, W, fuel) ==
    IF a \in LED_COLOR_TRIGGER_ATTRS THEN sync_led_color(p, W, fuel) ELSE p

OnLuminousTrigger(p, a, W, fuel) ==
    IF a \in LED_LUMINOUS_TRIGGER_ATTRS THEN sync_led_luminous(p, W, fuel) ELSE p

LEDColorSync_on_objects_changed(p, a, kind, W, fuel) ==
    OnLuminousTrigger(OnColourTrigger(p, a, W, fuel), a, W, fuel)

\* The host delivers a notice synchronously, before the write that caused
\* it returns, to every listener registered on the scene (W), in the order
\* of registration.  `fuel` is the nesting depth still available.
ToLightWatcher(p, a, kind, W, fuel) ==
    IF "light" \in W THEN LightWatcher_on_objects_changed(p, a, kind, W, fuel) ELSE p

ToColorSync(p, a, kind, W, fuel) ==
    IF "color" \in W THEN ColorSync_on_objects_changed(p, a, kind, W, fuel) ELSE p

ToLEDColorSync(p, a, kind, W, fuel) ==
    IF "led" \in W THEN LEDColorSync_on_objects_changed(p, a, kind, W, fuel) ELSE p

Notify(p, a, kind, W, fuel) ==
    IF p.overflow THEN p
    ELSE IF fuel = 0 THEN [p EXCEPT !.overflow = TRUE]
    ELSE ToLEDColorSync(
             ToColorSync(ToLightWatcher(p, a, kind, W, fuel - 1), a, kind, W, fuel - 1),
             a, kind, W, fuel - 1)

\* ------------------------------------------------------------------------
\* The light capabilities, as run by a bootstrap pass on one light
\* ------------------------------------------------------------------------

\* Capability 40, configure_light_prim: the four temperature attributes,
\* then two entries of node metadata.
configure_light_prim(p, W, fuel) ==
    SetMeta(CreateMissing(p, TEMP_ATTRS, 1, {}, W, fuel), "", 2, W, fuel)

\* Capability 00, run with a scene: metersPerUnit is set to 0.001 unless it
\* is already within 0.0001 of it.
TARGET_MPU == 100
MPU_TOLERANCE == 10

\* Variant: the scale is only read.
set_units_mm_ReadOnly(mpu) == mpu

set_units_mm(mpu) ==
    IF mpu - TARGET_MPU < MPU_TOLERANCE /\ TARGET_MPU - mpu < MPU_TOLERANCE THEN mpu
    ELSE TARGET_MPU

\* Capability 45, configure_ies_profile: the attribute is created without
\* a value, then two display hints are written.
configure_ies_profile(p, W, fuel) ==
    CreateMissing(p, <<A_iesProfile>>, 1, {A_iesProfile}, W, fuel)

\* Capability 45, sync_lighting_state: the native flag is written False
\* unconditionally, the native colour is set from the Kelvin attributes.
\* The profile is copied to the shaping attributes only when it has a
\* value, which nothing in the model gives it.
sync_lighting_state(p, W, fuel) ==
    SetIfValid(SetIfValid(p, A_enableCT, FALSE, W, fuel), A_color, KelvinColour(p), W, fuel)

\* Capability 46, load_spd_from_csv_to_prim
Cap46WriteLoadedSpd(p, res, W, fuel) ==
    IF ~res.ok \/ ~(Valid(p, A_wavelengths) /\ Valid(p, A_intensities)) THEN p
    ELSE SetIfValid(SetAttr(SetAttr(p, A_wavelengths, res.wl, W, fuel),
                            A_intensities, res.int, W, fuel),
                    A_spdInfo, get_spd_info("Points", res.wl, res.int), W, fuel)

load_spd_from_csv_to_prim(p, W, fuel) ==
    IF CsvPath(p) = "" THEN p
    ELSE Cap46WriteLoadedSpd(p, load_spd_from_csv(CsvPath(p)), W, fuel)

\* Capability 46, the csv block of sync_led_color: load, then continue as
\* manual; without a path the function returns.
Cap46CsvBlock(st, W, fuel) ==
    IF st.mode /= "csv" THEN st
    ELSE IF CsvPath(st.p) = "" THEN [st EXCEPT !.done = TRUE]
    ELSE [st EXCEPT !.p = load_spd_from_csv_to_prim(st.p, W, fuel), !.mode = "manual"]

\* Capability 46, the manual block of sync_led_color.
Cap46ManualBlock(st) ==
    IF st.done \/ st.mode /= "manual" THEN st
    ELSE IF ~ValidArrays(st.p) THEN [st EXCEPT !.mode = "gaussian"]
    ELSE [st EXCEPT !.rgb = spd_to_rgb(ArrayOf(st.p, A_wavelengths),
                                       ArrayOf(st.p, A_intensities))]

\* Capability 46, the gaussian block of sync_led_color.
Cap46GaussianBlock(st) == IF st.done THEN st ELSE GaussianBlock(st)

\* Capability 46, tail of sync_led_color: the native flag is written False
\* unconditionally.
Cap46ApplyNative(p, rgb, W, fuel) ==
    IF ~Valid(p, A_color) THEN p
    ELSE SetIfValid(SetAttr(p, A_color, rgb, W, fuel), A_enableCT, FALSE, W, fuel)

Cap46ApplyBlock(st, W, fuel) ==
    IF st.done \/ st.rgb = NoRgb THEN st.p
    ELSE Cap46ApplyNative(SetIfValid(st.p, A_computedColor, st.rgb, W, fuel),
                          st.rgb, W, fuel)

\* Capability 46, sync_led_color(light_prim)
Cap46SyncLedColour(p, W, fuel) ==
    IF ~Truthy(p, A_enabled) THEN p
    ELSE Cap46ApplyBlock(
             Cap46GaussianBlock(Cap46ManualBlock(Cap46CsvBlock(Started(p), W, fuel))),
             W, fuel)

\* Capability 46, sync_led_luminous(light_prim)
Cap46SyncLedLuminous(p, W, fuel) ==
    LET mcd == IF Valid(p, A_luminous) THEN p.val[A_luminous] ELSE 0
    IN IF ~Truthy(p, A_useLuminous) THEN p
       ELSE IF (Valid(p, A_luminous) /\ A_luminous \in p.unset) \/ mcd <= 0 THEN p
       ELSE SetIfValid(SetIfValid(p, A_computedIntensity, led_spec_to_omniverse(mcd), W, fuel),
                       A_intensity, led_spec_to_omniverse(mcd), W, fuel)

\* Capability 46, configure_led_profile
configure_led_profile(p, W, fuel) ==
    SetMeta(Cap46SyncLedLuminous(
                Cap46SyncLedColour(CreateMissing(p, LED_ATTRIBUTES, 1, {}, W, fuel), W, fuel),
                W, fuel),
            "", 1, W, fuel)

\* Capabilities 40, 45 and 46 applied to one node.  Each capability loops
\* over the lights of the scene; a callback only touches the node named in
\* the notice, so the per-light composition gives the same scene.
RunLightCapabilities(p, W) ==
    IF p.typeName \notin LIGHT_TYPES THEN Fresh(p)
    ELSE configure_led_profile(
             sync_lighting_state(
                 configure_ies_profile(configure_light_prim(Fresh(p), W, MaxNesting),
                                       W, MaxNesting),
                 W, MaxNesting),
             W, MaxNesting)

\* Light-side listeners registered on the scene that is current.
Listening ==
    {w \in {"light", "color", "led"} :
        watchers[w].enabled /\ watchers[w].listener = hostStage /\ hostStage /= NoStage}

NoCall == [op |-> "none", w |-> "", noop |-> FALSE]

\* ------------------------------------------------------------------------
\* Cameras, the drop directory and the Lens Library
\* ------------------------------------------------------------------------
LENS_ID_ATTR == "visiondt:lens:libraryId"

\* Archive files the operator copies into the drop directory, and the lens
\* id the library derives from each.
DropFiles == {"a.ZAR", "b.zar"}
LensOf(f) == IF f = "a.ZAR" THEN "lens_a" ELSE "lens_b"

\* Lens ids of the library index when the application starts.
ShippedLenses == {"lens_stock"}

\* Values the operator gives a camera's library id: none, a lens of the
\* shipped library, a lens that is in the library once a.ZAR is imported.
LibraryIdValues == {"", "lens_stock", "lens_a"}

\* A camera node: its library id ("" when absent or empty), the lens
\* whose profile its reference attributes hold, the origin of its native
\* focal length; typeName "" while the node has not been created.  change
\* names the last scene change that touched the node, synced records that
\* Lens Sync applied a profile while that change was handled.
NoCamera ==
    [typeName |-> "", libraryId |-> "", profile |-> "", focal |-> "default",
     change |-> "", synced |-> FALSE]

LibInit ==
    /\ camera = NoCamera
    /\ files = [f \in DropFiles |-> "absent"]
    /\ processed = {}
    /\ library = ShippedLenses
    /\ lastImported = ""
    /\ attempts = [f \in DropFiles |-> 0]

\* ------------------------------------------------------------------------
\* The Lens Library, the extension's registrations, the documentation server
\* ------------------------------------------------------------------------

\* Lens ids a caller passes to add_lens, as character codes: "a b", "a_b"
\* and "c".
Id_a_space_b == <<97, 32, 98>>
Id_a_b == <<97, Underscore, 98>>
Id_c == <<99>>

\* base_id with the numeric suffix of _generate_lens_id: "c", "c_1", "c_2".
WithSuffix(base, n) == IF n = 0 THEN base ELSE base \o <<Underscore, 48 + n>>

\* The ids _generate_lens_id can give the lens of the watched archive.
GeneratedIds == {WithSuffix(Id_c, n) : n \in 0..MaxImports}

LensIds == {Id_a_space_b, Id_a_b, Id_c} \cup GeneratedIds

\* Lens records a caller stores (data with manufacturer and model).
LensRecords == {"r1", "r2"}

\* Python's None.
None == "none"

\* [^\w\-_.]: the characters _sanitize_name keeps.
IsSafeChar(c) ==
    c \in (48..57) \cup (65..90) \cup (97..122) \cup {Underscore, 45, 46}

\* re.sub(r'[^\w\-_.]', '_', name)
ReplaceUnsafe(s) == [i \in 1..Len(s) |-> IF IsSafeChar(s[i]) THEN s[i] ELSE Underscore]

\* re.sub(r'_+', '_', safe)
RECURSIVE CollapseUnderscores(_)
CollapseUnderscores(s) ==
    IF Len(s) < 2 THEN s
    ELSE IF s[1] = Underscore /\ s[2] = Underscore THEN CollapseUnderscores(Tail(s))
    ELSE <<s[1]>> \o CollapseUnderscores(Tail(s))

\* safe.strip('_')
RECURSIVE StripUnderscores(_)
StripUnderscores(s) ==
    IF s = <<>> THEN s
    ELSE IF s[1] = Underscore THEN StripUnderscores(Tail(s))
    ELSE IF s[Len(s)] = Underscore THEN StripUnderscores(SubSeq(s, 1, Len(s) - 1))
    ELSE s


\* LensLibrary._sanitize_name ("unknown" written by its first letter).
sanitize_name(name) ==
    LET safe == StripUnderscores(CollapseUnderscores(ReplaceUnsafe(name)))
    IN IF safe = <<>> THEN <<117>> ELSE safe

\* Names of the data files of the library directory.
DataPaths == {sanitize_name(id) : id \in LensIds} \cup LensIds

\* A LensLibrary instance whose index is loaded and empty, in an empty
\* library directory; ret is the last call with its return value.
NoReturn == [op |-> "none", id |-> <<>>, overwrite |-> FALSE, value |-> None]

NewLensLibrary ==
    [index |-> <<>>, disk |-> <<>>, dataFiles |-> [f \in DataPaths |-> None],
     cache |-> [id \in LensIds |-> None], ret |-> NoReturn]

\* Documentation cache: keys, cached values, and what a cache file can
\* hold: nothing (no file), an entry written by set, or damaged content:
\* text that is no JSON, a JSON object without "timestamp", JSON that is no
\* object, an object whose timestamp is no number, bytes that are no UTF-8.
CacheKeys == {"k1", "k2"}
CacheValues == {"v1", "v2"}
DamagedKinds == {"not_json", "no_timestamp", "not_object", "bad_timestamp", "bad_utf8"}

NoFile == [kind |-> "absent", timestamp |-> 0, value |-> ""]
Damaged(kind) == [kind |-> kind, timestamp |-> 0, value |-> ""]

\* self.cache_duration, in ticks of the modelled clock.
cache_duration == 2

\* ret is the call made by the last step, with its result.
NoCacheCall == [op |-> "none", key |-> "", value |-> ""]

NewDocCache == [files |-> [k \in CacheKeys |-> NoFile], clock |-> 0, ret |-> NoCacheCall]

\* The tools of the documentation server, and a name that is none of them.
FetchingTools == {"search_omniverse_docs", "get_api_reference", "search_code_examples"}
ToolNames == FetchingTools \cup {"get_extension_guide", "search_omniverse_best_practices"}
UnknownTool == "unknown_tool"

\* What client.get can do: answer, fail with httpx.HTTPError, fail otherwise.
NetOutcomes == {"ok", "http_error", "raises"}

\* _fetcher is None and no tool has been called.
NoToolCall == [fetcher |-> FALSE, name |-> "", result |-> "none"]

\* Attributes of a camera node the camera callbacks create or write: three
\* of the lens attributes, the native focal length, one distortion field.
A_profileName == "visiondt:lens:profileName"
A_lens_k1 == "visiondt:lens:k1"
A_focalLength == "focalLength"
A_distortion_k1 == "lensDistortion:k1"
CameraAttrs == {LENS_ID_ATTR, A_profileName, A_lens_k1, A_focalLength, A_distortion_k1}

\* LENS_ATTRIBUTES, in the order of the table.
LENS_ATTRIBUTES == <<LENS_ID_ATTR, A_profileName, A_lens_k1>>

\* The default the table gives a lens attribute; the schema's fallback for
\* the native focal length.
LensDefault(a) ==
    CASE a \in {LENS_ID_ATTR, A_profileName} -> ""
      [] a = A_focalLength -> "50"
      [] OTHER -> "0"

\* A camera node as the callbacks see it.  api: the distortion schema is
\* applied; apiOk: the host knows that schema; op: the scene change being
\* handled; cwRuns and lsRuns count executions of _apply_lens_attributes and
\* of _apply_lens_profile during that handling; overflow: the nesting of
\* notices reached MaxNesting.
NewCameraNode(t, apiOk) ==
    [typeName |-> t, has |-> {}, unset |-> {}, val |-> [a \in CameraAttrs |-> LensDefault(a)],
     api |-> FALSE, apiOk |-> apiOk, op |-> "create", cwRuns |-> 0, lsRuns |-> 0,
     overflow |-> FALSE]

NoCameraNode == NewCameraNode("", FALSE)

\* Paths at which the operator creates lights under the prototype watcher.
ProtoPaths == 1..MaxPaths

\* The prototype creation watcher and the scene it looks at, before the
\* watcher is constructed.  `lights` are the lights of the open scene,
\* `tasks` the _configure_new_lights tasks handed to the event loop and not
\* finished.  atAttach, created and scheduled are history: the lights that
\* existed when the listener was registered, the lights created since, and
\* the number of times each path was handed to a task since.
NewProto ==
    [constructed |-> FALSE, stageOpen |-> FALSE, lights |-> {}, listener |-> FALSE,
     known |-> {}, processing |-> FALSE, tasks |-> <<>>, configured |-> {},
     atAttach |-> {}, created |-> {}, scheduled |-> [p \in ProtoPaths |-> 0]]

CompInit ==
    /\ lensLib = NewLensLibrary
    /\ docCache = NewDocCache
    /\ toolCall = NoToolCall
    /\ camNode = NoCameraNode
    /\ proto = NewProto
    /\ metersPerUnit = 1000 * TARGET_MPU

SceneInit ==
    /\ prims = <<>>
    /\ edits = 0
    /\ registrations = [w \in SceneBound |-> <<>>]
    /\ lastCall = NoCall
    /\ LibInit
    /\ CompInit

\* ------------------------------------------------------------------------
\* Actions on the open scene
\* ------------------------------------------------------------------------

\* The operator creates a node: a resync notice for the node path.
CreatePrim ==
    /\ pc = "idle"
    /\ hostStage /= NoStage
    /\ Len(prims) < MaxLights
    /\ \E t \in PrimTypes :
          prims' = Append(prims,
                       Settled(Notify(NewPrim(t), "", "resync", Listening, MaxNesting), "create"))
    /\ UNCHANGED <<bootVars, edits, auxVars, libVars>>

\* The operator edits an existing attribute of a node in the property panel.
OperatorSet ==
    /\ pc = "idle"
    /\ hostStage /= NoStage
    /\ edits < MaxEdits
    /\ \E i \in 1..Len(prims), a \in EditableAttrs :
          /\ Valid(prims[i], a)
          /\ \E v \in EditValues(a) :
                /\ a \in prims[i].unset \/ v /= prims[i].val[a]
                /\ prims' = [prims EXCEPT ![i] =
                                Settled(SetAttr(Fresh(@), a, v, Listening, MaxNesting), a)]
    /\ edits' = edits + 1
    /\ UNCHANGED <<bootVars, auxVars, libVars>>

\* A script or the operator adds one custom attribute to a node and gives
\* it a value.
OperatorCreateAttr ==
    /\ pc = "idle"
    /\ hostStage /= NoStage
    /\ edits < MaxEdits
    /\ \E i \in 1..Len(prims), a \in ScriptedAttrs :
          /\ a \notin prims[i].has
          /\ \E v \in EditValues(a) :
                prims' = [prims EXCEPT ![i] =
                             Settled(SetAttr(CreateAttr(Fresh(@), a, Listening, MaxNesting),
                                             a, v, Listening, MaxNesting), "add")]
    /\ edits' = edits + 1
    /\ UNCHANGED <<bootVars, auxVars, libVars>>

\* A complete bootstrap pass on the current scene with the shipped
\* capability set: capability 00 on the scene's units, capabilities 40, 45
\* and 46 on every light, heard by the listeners of the previous rebind,
\* then stop-all-then-start-all.  Capability 25 works on cameras, of which
\* the scenes of these specifications have none.
ScenePass ==
    /\ pc = "idle"
    /\ hostStage /= NoStage
    /\ prims' = [i \in 1..Len(prims) |->
                    Settled(RunLightCapabilities(prims[i], Listening), "pass")]
    /\ watchers' = [w \in SceneBound |->
                        start_watching(stop_watching(watchers[w]), hostStage, hostStage)]
    /\ zemax' = ZemaxStart(ZemaxStop(zemax), TRUE)
    /\ lastRebind' = hostStage
    /\ metersPerUnit' = set_units_mm(metersPerUnit)
    /\ UNCHANGED <<hostStage, nextStageId, stageEvents, extension, tasks, capDir, pc, caller,
                   passStage, capability_files, idx, loaded_capabilities, capLog,
                   watcherLog, result, opens, handled, lastOutcome, edits>>
    /\ UNCHANGED <<registrations, lastCall, lensLib, menus, docCache, toolCall, protoVars, libVars>>

\* ------------------------------------------------------------------------
\* Specification of the open scene: one scene is open in a host without
\* the extension's subscription; passes are started from the script console.
\* ------------------------------------------------------------------------
InitScene == BootInit(FALSE, TRUE) /\ SceneInit

NextScene ==
    \/ CreatePrim
    \/ OperatorSet
    \/ OperatorCreateAttr
    \/ ScenePass

SpecScene == InitScene /\ [][NextScene]_vars

\* ------------------------------------------------------------------------
\* Properties of the scene
\* ------------------------------------------------------------------------
IsLight(p) == p.typeName \in LIGHT_TYPES

HasTemperatureGroup(p) == TEMP_ATTRS[1] \in p.has

\* C2: whenever no capability or callback is executing and a bootstrap pass
\* has bound the watchers to the scene, every light that carries the
\* temperature group, or whose LED colour mode is enabled, has its native
\* enableColorTemperature flag False.  Violated: the flag is watched by no
\* listener, so an operator edit that switches it on stays.
C2_NativeFlagForcedOff ==
    lastRebind = hostStage =>
    \A i \in 1..Len(prims) :
        (IsLight(prims[i]) /\ (HasTemperatureGroup(prims[i]) \/ Truthy(prims[i], A_enabled)))
            => prims[i].val[A_enableCT] = FALSE

\* C6: handling one operator edit of an LED trigger attribute ends after a
\* bounded number of LED synchronisation executions: the nesting of notices
\* never reaches the depth bound.  Violated in csv mode when the loaded
\* data holds a NaN: every nested execution writes the arrays again and the
\* write is never dropped.
C6_LedSyncBounded ==
    \A i \in 1..Len(prims) :
        prims[i].cause \notin (LED_COLOR_TRIGGER_ATTRS \cup LED_LUMINOUS_TRIGGER_ATTRS)

\* ------------------------------------------------------------------------
\* Specifications
\* ------------------------------------------------------------------------

\* The loader driven by scripts, no extension subscribed.
InitLoader == BootInit(FALSE, FALSE) /\ SceneInit

NextLoader ==
    \/ OpenStage
    \/ CloseStage
    \/ EditCapabilityDir(ToggleFiles)
    \/ DirectCall
    \/ RunCapability(LoaderKinds)
    \/ StopWatcher
    \/ StartWatcher
    \/ PassReturn

SpecLoader == InitLoader /\ [][NextLoader]_vars

\* The extension started with the bootstrap system initialised.
InitExt == BootInit(TRUE, FALSE) /\ SceneInit

NextExt ==
    \/ OpenStage
    \/ CloseStage
    \/ EditCapabilityDir({F_00_a})
    \/ OnStageEvent
    \/ HostUpdate
    \/ OnShutdown
    \/ RunBootstrapAsync
    \/ RunCapability(ExtKinds)
    \/ StopWatcher
    \/ StartWatcher
    \/ PassReturn

SpecExt == InitExt /\ [][NextExt]_vars

\* Fairness the host's scheduling gives: the event stream is popped, update
\* frames keep advancing, and synchronous code runs to completion.  The
\* operator (open, close, directory edits, shutdown) is under no obligation.
SpecExtFair ==
    /\ SpecExt
    /\ WF_vars(OnStageEvent)
    /\ WF_vars(HostUpdate)
    /\ WF_vars(RunBootstrapAsync)
    /\ WF_vars(RunCapability(ExtKinds))
    /\ WF_vars(StopWatcher)
    /\ WF_vars(StartWatcher)
    /\ WF_vars(PassReturn)

\* ------------------------------------------------------------------------
\* Properties
\* ------------------------------------------------------------------------

\* The rebind sequence the loader documents: six stops, then six starts.
ExpectedRebind ==
    << [op |-> "stop", w |-> "light"], [op |-> "stop", w |-> "color"],
       [op |-> "stop", w |-> "led"], [op |-> "stop", w |-> "camera"],
       [op |-> "stop", w |-> "lens"], [op |-> "stop", w |-> "zemax"],
       [op |-> "start", w |-> "light"], [op |-> "start", w |-> "color"],
       [op |-> "start", w |-> "led"], [op |-> "start", w |-> "camera"],
       [op |-> "start", w |-> "lens"], [op |-> "start", w |-> "zemax"] >>

C3_RebindBeforeReturn == pc = "ret" => watcherLog = ExpectedRebind

\* C4 (as claimed): when run_all_capabilities returns after resolving a
\* non-null scene S, every enabled scene-bound watcher holds exactly S.
C4_BoundToResolvedAtReturn ==
    (pc = "ret" /\ passStage /= NoStage) =>
        \A w \in SceneBound : watchers[w].enabled => watchers[w].stage = passStage

\* C5 (as claimed, in the form a finite run refutes): every bootstrap task
\* started by a scene-open event ends having executed one complete pass,
\* capabilities then rebind, against the scene current at the end of the
\* settle delay.
C5_EveryOpenGetsCompletePass ==
    lastOutcome.kind /= "none" =>
        /\ lastOutcome.kind = "pass"
        /\ lastOutcome.rebound
        /\ lastOutcome.stage = lastOutcome.current

\* C5 (amended): every scene-open event emitted while the extension is
\* subscribed is eventually followed, unless the extension is shut down
\* first, by the end of its bootstrap task; the task invokes
\* run_all_capabilities with the scene current at the end of the settle
\* delay, which runs every discovered capability and, when at least one was
\* discovered, the rebind; with no current scene the task runs no pass.
C5_OpenLeadsToTaskEnd ==
    /\ \A n \in 1..MaxStages :
          (opens >= n) ~> (handled >= n \/ ~extension.subscription)
    /\ [](lastOutcome.kind = "pass" =>
             /\ lastOutcome.stage /= NoStage
             /\ lastOutcome.stage = lastOutcome.current
             /\ (lastOutcome.total > 0 => lastOutcome.rebound))
    /\ [](lastOutcome.kind = "nostage" => lastOutcome.current = NoStage)
    /\ []((pc = "ret" /\ caller = "ext") =>
             /\ passStage = hostStage
             /\ result.total = Len(capability_files))

\* A scene-open event was followed by a complete pass with rebind.
C5_Witness ==
    /\ handled >= 1
    /\ lastOutcome.kind = "pass"
    /\ lastOutcome.total > 0
    /\ lastOutcome.rebound

\* C7: within a pass the capabilities run one at a time in ascending
\* filename order: the k-th capability run is the k-th discovered file, it
\* starts after the records of all earlier ones are complete, and the
\* discovered files are strictly ascending by name.
C7_SequentialAscending ==
    /\ Len(capLog) = Len(loaded_capabilities)
    /\ pc = "loop" => Len(capLog) = idx - 1
    /\ \A i \in 1..Len(capLog) :
          /\ capLog[i].name = Stem(capability_files[i])
          /\ capLog[i].after = i - 1
    /\ \A i \in 1..(Len(capability_files) - 1) :
          NameLess(capability_files[i], capability_files[i + 1])

\* Two capabilities have run in one pass.
C7_Witness == pc = "stop" /\ Len(capLog) = 2 /\ idx = 1

\* C8 (as claimed): every capability executed by run_all_capabilities(stage)
\* works on the scene supplied to (or resolved by) that call.
C8_CapabilitiesUseSuppliedStage ==
    \A i \in 1..Len(capLog) : capLog[i].ran => capLog[i].stage = passStage

\* C9: within a pass all six stops are issued before any start, and stops
\* and starts are each issued in the order light, color, led, camera, lens,
\* zemax.
C9_StopAllThenStartAll ==
    /\ Len(watcherLog) <= Len(ExpectedRebind)
    /\ \A i \in 1..Len(watcherLog) : watcherLog[i] = ExpectedRebind[i]
    /\ pc = "start" => Len(watcherLog) >= 6

\* The rebind of a pass is complete.
C9_Witness == pc = "ret" /\ Len(watcherLog) = 12

\* C10: a load failure or an exception of one capability is recorded as
\* (name, False, message); every later capability and the rebind still
\* execute and the pass returns its result.
C10_FailureIsRecorded ==
    /\ \A i \in 1..Len(capLog) :
          capLog[i].kind \in {"load_fail", "raise"} =>
              /\ loaded_capabilities[i].name = Stem(capability_files[i])
              /\ loaded_capabilities[i].success = FALSE
    /\ (pc = "ret" /\ capability_files /= <<>>) =>
          /\ Len(capLog) = Len(capability_files)
          /\ watcherLog = ExpectedRebind
          /\ result.capabilities = loaded_capabilities
          /\ result.total = Len(capability_files)
          /\ result.failed = Cardinality({i \in 1..Len(capLog) : ~loaded_capabilities[i].success})

\* A pass whose first capability raised and whose second failed to load
\* has returned.
C10_Witness ==
    /\ pc = "ret"
    /\ Len(capLog) = 2
    /\ capLog[1].kind = "raise"
    /\ capLog[2].kind = "load_fail"
    /\ result.failed = 2

\* ------------------------------------------------------------------------
\* Rebind with failing watcher blocks
\* ------------------------------------------------------------------------

\* What can raise inside one guarded block: the `from utils.x import ...`
\* line, or the stop/start call after it.
FaultKinds == {"import", "call"}

MaxFaults == 1

FailedOps == {"stop_failed", "start_failed"}

CountFaults(log) == Cardinality({i \in 1..Len(log) : log[i].op \in FailedOps})

\* Variant: the blocks are not wrapped, an exception leaves the pass.
GuardCatches_Unguarded(fault) == FALSE

\* `except Exception as e:` after each block: the exception is logged.
GuardCatches(fault) == fault \in FaultKinds

\* stop() raising in Revoke(): no field has been assigned yet.
WatcherStopRaises(w) == w

\* start() raising in Tf.Notice.Register: the singleton exists and `_stage`
\* is assigned, the listener and the enabled flag are not.
WatcherStartRaises(w, stage, current) ==
    IF w.enabled THEN [w EXCEPT !.instance = TRUE]
    ELSE [w EXCEPT !.instance = TRUE,
                   !.stage = IF stage = NoStage THEN current ELSE stage]

\* The exception of an unguarded block leaves run_all_capabilities: no
\* result dictionary is returned.
PassRaises ==
    /\ pc' = "ret"
    /\ idx' = 0
    /\ result' = NoResult

\* A guarded stop block whose import or call raises.
StopWatcherFault ==
    /\ pc = "stop"
    /\ CountFaults(watcherLog) < MaxFaults
    /\ watcherLog' = Append(watcherLog, [op |-> "stop_failed", w |-> WatcherOrder[idx]])
    /\ \E fault \in FaultKinds :
          IF GuardCatches(fault)
          THEN /\ IF WatcherOrder[idx] \in SceneBound /\ fault = "call"
                  THEN watchers' = [watchers EXCEPT ![WatcherOrder[idx]] = WatcherStopRaises(@)]
                  ELSE watchers' = watchers
               /\ IF idx = Len(WatcherOrder)
                  THEN pc' = "start" /\ idx' = 1
                  ELSE pc' = "stop" /\ idx' = idx + 1
               /\ UNCHANGED result
          ELSE /\ PassRaises
               /\ UNCHANGED watchers
    /\ UNCHANGED <<hostStage, nextStageId, stageEvents, extension, tasks, capDir, caller,
                   passStage, capability_files, loaded_capabilities, capLog, zemax,
                   lastRebind, opens, handled, lastOutcome>>
    /\ UNCHANGED <<sceneVars, auxVars, libVars>>

\* A guarded start block whose import or call raises; after the last block
\* the result dictionary is built.
StartWatcherFault ==
    /\ pc = "start"
    /\ CountFaults(watcherLog) < MaxFaults
    /\ watcherLog' = Append(watcherLog, [op |-> "start_failed", w |-> WatcherOrder[idx]])
    /\ \E fault \in FaultKinds :
          IF GuardCatches(fault)
          THEN /\ IF fault = "import"
                  THEN UNCHANGED <<watchers, zemax>>
                  ELSE IF WatcherOrder[idx] \in SceneBound
                  THEN /\ watchers' = [watchers EXCEPT ![WatcherOrder[idx]] =
                                           WatcherStartRaises(@, passStage, hostStage)]
                       /\ zemax' = zemax
                  ELSE /\ zemax' = [zemax EXCEPT !.instance = TRUE]
                       /\ watchers' = watchers
               /\ IF idx = Len(WatcherOrder)
                  THEN /\ pc' = "ret"
                       /\ idx' = 0
                       /\ result' = ResultOf(loaded_capabilities)
                       /\ lastRebind' = passStage
                  ELSE /\ pc' = "start"
                       /\ idx' = idx + 1
                       /\ UNCHANGED <<result, lastRebind>>
          ELSE /\ PassRaises
               /\ UNCHANGED <<watchers, zemax, lastRebind>>
    /\ UNCHANGED <<hostStage, nextStageId, stageEvents, extension, tasks, capDir, caller,
                   passStage, capability_files, loaded_capabilities, capLog, opens,
                   handled, lastOutcome>>
    /\ UNCHANGED <<sceneVars, auxVars, libVars>>

\* The loader driven by scripts, with watcher blocks that may raise.
NextRebind ==
    \/ OpenStage
    \/ DirectCall
    \/ RunCapability(ExtKinds)
    \/ StopWatcher
    \/ StartWatcher
    \/ StopWatcherFault
    \/ StartWatcherFault
    \/ PassReturn

SpecRebind == InitLoader /\ [][NextRebind]_vars

Attempted(op, k) ==
    /\ watcherLog[k].w = WatcherOrder[IF op = "stop" THEN k ELSE k - Len(WatcherOrder)]
    /\ watcherLog[k].op \in {op, IF op = "stop" THEN "stop_failed" ELSE "start_failed"}

Faulted(w) == \E i \in 1..Len(watcherLog) : watcherLog[i].w = w /\ watcherLog[i].op \in FailedOps

\* C11: when the import, the stop or the start of a watcher raises during
\* the rebind, the pass still attempts all six stop blocks and then all six
\* start blocks, every scene-bound watcher whose own blocks did not raise
\* ends up started on the scene of the pass, and run_all_capabilities
\* returns its result dictionary.
C11_OthersStillAttempted ==
    (pc = "ret" /\ watcherLog /= <<>>) =>
        /\ Len(watcherLog) = 2 * Len(WatcherOrder)
        /\ \A k \in 1..Len(WatcherOrder) :
              Attempted("stop", k) /\ Attempted("start", k + Len(WatcherOrder))
        /\ result = ResultOf(loaded_capabilities)
        /\ \A w \in SceneBound :
              ~Faulted(w) =>
                  /\ watchers[w].instance
                  /\ passStage /= NoStage =>
                        /\ watchers[w].enabled
                        /\ watchers[w].listener = passStage

\* A pass in which the stop call of the colour sync raised, and which went
\* on to return its dictionary.
C11_Witness ==
    /\ pc = "ret"
    /\ Len(watcherLog) = 12
    /\ watcherLog[2].op = "stop_failed"
    /\ watchers["lens"].enabled
    /\ result.total = 2

\* ------------------------------------------------------------------------
\* The shipped capability set, run without a scene
\* ------------------------------------------------------------------------
F_00_set_units_mm ==
    <<48, 48, 95, 115, 101, 116, 95, 117, 110, 105, 116, 115, 95, 109, 109, 46, 112, 121>>
F_25_apply_lens_profile ==
    <<50, 53, 95, 97, 112, 112, 108, 121, 95, 108, 101, 110, 115, 95, 112, 114, 111, 102, 105, 108, 101, 46, 112, 121>>
F_40_add_custom_attributes ==
    <<52, 48, 95, 97, 100, 100, 95, 99, 117, 115, 116, 111, 109, 95, 97, 116, 116, 114, 105, 98, 117, 116, 101, 115, 46, 112, 121>>
F_45_configure_advanced_lighting ==
    <<52, 53, 95, 99, 111, 110, 102, 105, 103, 117, 114, 101, 95, 97, 100, 118, 97, 110, 99, 101, 100, 95, 108, 105, 103, 104, 116, 105, 110, 103, 46, 112, 121>>
F_46_configure_led_profile ==
    <<52, 54, 95, 99, 111, 110, 102, 105, 103, 117, 114, 101, 95, 108, 101, 100, 95, 112, 114, 111, 102, 105, 108, 101, 46, 112, 121>>

ShippedFiles ==
    {F_00_set_units_mm, F_25_apply_lens_profile, F_40_add_custom_attributes,
     F_45_configure_advanced_lighting, F_46_configure_led_profile}

\* What run() of each shipped capability returns, and whether it has
\* written to a scene, as a function of the scene it resolves.  With a scene
\* the message depends on the content; it is kept abstract here.
run_00_set_units_mm(stage) ==
    IF stage = NoStage
    THEN [kind |-> "ret_tuple_fail", message |-> "No USD stage available", writes |-> FALSE]
    ELSE [kind |-> "ret_tuple_ok", message |-> "millimeters", writes |-> TRUE]

run_25_apply_lens_profile(stage) ==
    IF stage = NoStage
    THEN [kind |-> "ret_none", message |-> "", writes |-> FALSE]
    ELSE [kind |-> "ret_none", message |-> "", writes |-> TRUE]

run_40_add_custom_attributes(stage) ==
    IF stage = NoStage
    THEN [kind |-> "ret_tuple_ok", message |-> "No stage available (skipped)", writes |-> FALSE]
    ELSE [kind |-> "ret_tuple_ok", message |-> "lights", writes |-> TRUE]

run_45_configure_advanced_lighting(stage) ==
    IF stage = NoStage
    THEN [kind |-> "ret_tuple_ok", message |-> "No stage (skipped)", writes |-> FALSE]
    ELSE [kind |-> "ret_tuple_ok", message |-> "lights", writes |-> TRUE]

run_46_configure_led_profile(stage) ==
    IF stage = NoStage
    THEN [kind |-> "ret_tuple_ok", message |-> "No stage (skipped)", writes |-> FALSE]
    ELSE [kind |-> "ret_tuple_ok", message |-> "lights", writes |-> TRUE]

ModuleRun(f, stage) ==
    CASE f = F_00_set_units_mm -> run_00_set_units_mm(stage)
      [] f = F_25_apply_lens_profile -> run_25_apply_lens_profile(stage)
      [] f = F_40_add_custom_attributes -> run_40_add_custom_attributes(stage)
      [] f = F_45_configure_advanced_lighting -> run_45_configure_advanced_lighting(stage)
      [] f = F_46_configure_led_profile -> run_46_configure_led_profile(stage)

\* The loader's record of one shipped capability: a returned tuple is kept
\* as it is, any other return value is normalised by execute_capability.
ShippedRecord(f, stage) ==
    [name |-> Stem(f),
     success |-> execute_capability(ModuleRun(f, stage).kind).success,
     message |-> IF ModuleRun(f, stage).kind \in {"ret_tuple_ok", "ret_tuple_fail"}
                 THEN ModuleRun(f, stage).message
                 ELSE execute_capability(ModuleRun(f, stage).kind).message]

\* A script runs a complete pass while the host has no scene: every
\* discovered capability resolves no scene, then the rebind finds no scene
\* to start the scene-bound watchers on.
NoScenePass ==
    /\ pc = "idle"
    /\ hostStage = NoStage
    /\ \E g \in GlobOrders(capDir) :
          /\ loaded_capabilities' =
                 [i \in 1..Len(discover_capabilities(g)) |->
                     ShippedRecord(discover_capabilities(g)[i], hostStage)]
          /\ IF discover_capabilities(g) = <<>>
             THEN UNCHANGED <<watchers, zemax, lastRebind>>
             ELSE /\ watchers' = [w \in SceneBound |->
                                     start_watching(stop_watching(watchers[w]), NoStage, hostStage)]
                  /\ \E dirOk \in BOOLEAN : zemax' = ZemaxStart(ZemaxStop(zemax), dirOk)
                  /\ lastRebind' = NoStage
    /\ UNCHANGED <<hostStage, nextStageId, stageEvents, extension, tasks, capDir, pc, caller,
                   passStage, capability_files, idx, capLog, watcherLog, result, opens,
                   handled, lastOutcome>>
    /\ UNCHANGED <<sceneVars, auxVars, libVars>>

\* The application with the shipped capability directory, no extension
\* subscription, no scene open.
InitShipped ==
    /\ menus = NewSetup
    /\ hostStage = NoStage
    /\ nextStageId = 1
    /\ stageEvents = <<>>
    /\ extension = [subscription |-> FALSE, loader |-> FALSE]
    /\ tasks = <<>>
    /\ capDir = ShippedFiles \cup {F_init}
    /\ PassLocalsIdle
    /\ loaded_capabilities = <<>>
    /\ watchers = [w \in SceneBound |-> NewWatcher]
    /\ zemax = NewZemax
    /\ lastRebind = NoStage
    /\ opens = 0
    /\ handled = 0
    /\ lastOutcome = NoOutcome
    /\ SceneInit

NextShipped ==
    \/ OpenStage
    \/ CloseStage
    \/ EditCapabilityDir({F_00_set_units_mm, F_25_apply_lens_profile})
    \/ ScenePass
    \/ NoScenePass

SpecShipped == InitShipped /\ [][NextShipped]_vars

SkippedMessages == {"No stage available (skipped)", "No stage (skipped)"}

\* C12 (as claimed): without a scene no shipped capability writes to a
\* scene, and the loader records each enabled capability as successful with
\* a message marking it as skipped, so the pass reports zero failed.
\* Violated: capability 00 returns (False, "No USD stage available") and
\* capability 25 returns None, recorded as "Success".
C12_NoSceneAllSkipped ==
    /\ \A f \in ShippedFiles : ~ModuleRun(f, NoStage).writes
    /\ \A i \in 1..Len(loaded_capabilities) :
          /\ loaded_capabilities[i].success
          /\ loaded_capabilities[i].message \in SkippedMessages
    /\ ResultOf(loaded_capabilities).failed = 0

\* ------------------------------------------------------------------------
\* Start and stop of the scene-bound watchers, called in any order
\* ------------------------------------------------------------------------

\* The scene start() works on: the argument, or the host's current scene.
ResolveStage(stage, current) == IF stage = NoStage THEN current ELSE stage

\* Variant: start() without the early return on `_enabled`.
Registers_Unguarded(w, stage, current) == ResolveStage(stage, current) /= NoStage

\* start() reaches Tf.Notice.Register: not enabled, and a scene resolved.
Registers(w, stage, current) == ~w.enabled /\ ResolveStage(stage, current) /= NoStage

\* Variant: stop() drops the listener object without revoking it.
Revokes_Never(w) == FALSE

\* stop() calls Revoke() on the listener it holds, if it holds one.
Revokes(w) == w.listener /= NoStage

\* Host registry after Revoke() of the listener registered on scene s.
RECURSIVE RemoveOne(_, _)
RemoveOne(regs, s) ==
    IF regs = <<>> THEN <<>>
    ELSE IF Head(regs) = s THEN Tail(regs)
    ELSE <<Head(regs)>> \o RemoveOne(Tail(regs), s)

\* A script calls the module-level start function of one watcher.
CallStart(ws) ==
    /\ pc = "idle"
    /\ \E w \in ws, stage \in 0..(nextStageId - 1) :
          /\ watchers' = [watchers EXCEPT ![w] = start_watching(@, stage, hostStage)]
          /\ registrations' =
                 IF Registers(watchers[w], stage, hostStage)
                 THEN [registrations EXCEPT ![w] = Append(@, ResolveStage(stage, hostStage))]
                 ELSE registrations
          /\ lastCall' = [op |-> "start", w |-> w, noop |-> watchers[w].enabled]
    /\ UNCHANGED <<hostStage, nextStageId, stageEvents, extension, tasks, capDir, pc, caller,
                   passStage, capability_files, idx, loaded_capabilities, capLog,
                   watcherLog, result, zemax, lastRebind, opens, handled, lastOutcome>>
    /\ UNCHANGED <<sceneVars, libVars, compVars>>

\* A script calls the module-level stop function of one watcher.
CallStop(ws) ==
    /\ pc = "idle"
    /\ \E w \in ws :
          /\ watchers' = [watchers EXCEPT ![w] = stop_watching(@)]
          /\ registrations' =
                 IF watchers[w].instance /\ Revokes(watchers[w])
                 THEN [registrations EXCEPT ![w] = RemoveOne(@, watchers[w].listener)]
                 ELSE registrations
          /\ lastCall' = [op |-> "stop", w |-> w, noop |-> ~watchers[w].instance]
    /\ UNCHANGED <<hostStage, nextStageId, stageEvents, extension, tasks, capDir, pc, caller,
                   passStage, capability_files, idx, loaded_capabilities, capLog,
                   watcherLog, result, zemax, lastRebind, opens, handled, lastOutcome>>
    /\ UNCHANGED <<sceneVars, libVars, compVars>>

NextWatcher ==
    \/ OpenStage
    \/ CloseStage
    \/ CallStart(SceneBound)
    \/ CallStop(SceneBound)

SpecWatcher == InitLoader /\ [][NextWatcher]_vars

\* C13: a start on an enabled watcher leaves its fields and its
\* registration as they were, and at every moment each scene-bound watcher
\* has at most one live registration: none while it is disabled, exactly
\* the one on its scene reference while it is enabled.
C13_AtMostOneRegistration ==
    /\ [](\A w \in SceneBound :
             /\ Len(registrations[w]) <= 1
             /\ registrations[w] = IF watchers[w].enabled THEN <<watchers[w].stage>> ELSE <<>>)
    /\ [][\A w \in SceneBound :
             (lastCall'.op = "start" /\ lastCall'.w = w /\ lastCall'.noop) =>
                 /\ watchers'[w] = watchers[w]
                 /\ registrations'[w] = registrations[w]]_vars

\* The LED sync, bound to the first scene, was started again after a second
\* scene had been opened.
C13_Witness ==
    /\ lastCall = [op |-> "start", w |-> "led", noop |-> TRUE]
    /\ hostStage = 2
    /\ registrations["led"] = <<1>>

\* ------------------------------------------------------------------------
\* Scene changes heard through the host registry
\* ------------------------------------------------------------------------

MaxHeardEdits == 1
MaxTime == 3

\* Watchers of light nodes.
LightSide == {"light", "color", "led"}

\* The host delivers a notice of the current scene to every listener that
\* is registered on it and has not been revoked.
Registered ==
    {w \in LightSide :
        hostStage /= NoStage /\ \E k \in 1..Len(registrations[w]) : registrations[w][k] = hostStage}

\* The node an operator edit of attribute a to v leaves, heard by W.
AfterSet(p, a, v, W) == Settled(SetAttr(Fresh(p), a, v, W, MaxNesting), a)

\* The node a creation of type t leaves, heard by W.
AfterCreate(t, W) == Settled(Notify(NewPrim(t), "", "resync", W, MaxNesting), "create")

\* The operator creates a node.
CreatePrimHeard ==
    /\ pc = "idle"
    /\ hostStage /= NoStage
    /\ Len(prims) < MaxLights
    /\ \E t \in PrimTypes :
          prims' = Append(prims, AfterCreate(t, Registered))
    /\ UNCHANGED <<bootVars, edits, registrations, lastCall, libVars, compVars>>

\* The operator edits an existing attribute of a node.
OperatorSetHeard ==
    /\ pc = "idle"
    /\ hostStage /= NoStage
    /\ edits < MaxHeardEdits
    /\ \E i \in 1..Len(prims), a \in EditableAttrs :
          /\ Valid(prims[i], a)
          /\ \E v \in EditValues(a) :
                /\ a \in prims[i].unset \/ v /= prims[i].val[a]
                /\ prims' = [prims EXCEPT ![i] = AfterSet(@, a, v, Registered)]
    /\ edits' = edits + 1
    /\ UNCHANGED <<bootVars, registrations, lastCall, libVars, compVars>>

\* The watchers started and stopped from the console in this specification.
StoppedInTurn == {"light", "color"}

NextStop ==
    \/ CallStart(StoppedInTurn)
    \/ CallStop(StoppedInTurn)
    \/ CreatePrimHeard
    \/ OperatorSetHeard

SpecStop == InitScene /\ [][NextStop]_vars

\* Listeners that are registered on the current scene and whose watcher
\* is enabled.
RegisteredEnabled == {w \in Registered : watchers[w].enabled}

\* The step is an operator edit of one node as the listeners W hear it.
IsSetHeardBy(W) ==
    \E i \in 1..Len(prims) :
        /\ prims'[i] /= prims[i]
        /\ \E a \in EditableAttrs :
              /\ Valid(prims[i], a)
              /\ \E v \in EditValues(a) : prims' = [prims EXCEPT ![i] = AfterSet(@, a, v, W)]

\* The step is the creation of a node as the listeners W hear it.
IsCreateHeardBy(W) == \E t \in PrimTypes : prims' = Append(prims, AfterCreate(t, W))

\* C14: after the stop of a scene-bound watcher, its registration is
\* revoked, its scene reference is cleared and it is disabled; a scene
\* change leaves the scene as the operator's change leaves it when only the
\* enabled watchers hear it: a disabled watcher writes nothing.
C14_StoppedWatcherIsSilent ==
    /\ [](\A w \in SceneBound :
             (lastCall.op = "stop" /\ lastCall.w = w /\ ~lastCall.noop) =>
                 /\ registrations[w] = <<>>
                 /\ watchers[w].listener = NoStage
                 /\ watchers[w].stage = NoStage
                 /\ ~watchers[w].enabled)
    /\ [][(edits' = edits + 1 => IsSetHeardBy(RegisteredEnabled))
           /\ (Len(prims') > Len(prims) => IsCreateHeardBy(RegisteredEnabled))]_vars

\* The colour sync was bound and then stopped, the Light Watcher is bound;
\* the operator has changed the overall temperature of a provisioned light
\* and its native colour is still the default.
C14_Witness ==
    /\ lastCall = [op |-> "stop", w |-> "color", noop |-> FALSE]
    /\ watchers["light"].enabled
    /\ edits = 1
    /\ Len(prims) = 1
    /\ prims[1].val[A_overall] /= DEFAULT_TEMPERATURE
    /\ prims[1].val[A_color] = Default(A_color)

\* ------------------------------------------------------------------------
\* Colour synchronisation
\* ------------------------------------------------------------------------

\* The temperature a node holds: the stored value, the default when the
\* attribute is missing or has no value.
TempHeld(p, a) == IF a \in p.has /\ a \notin p.unset THEN p.val[a] ELSE DEFAULT_TEMPERATURE

\* The operator's edit gave temperature attribute a of node i a new value.
TemperatureEdited(i, a) ==
    /\ edits' = edits + 1
    /\ a \in prims'[i].has
    /\ a \notin prims'[i].unset
    /\ a \in prims[i].has /\ a \notin prims[i].unset => prims'[i].val[a] /= prims[i].val[a]

SameAttributes(p, q) ==
    /\ p.has = q.has
    /\ p.unset = q.unset
    /\ \A a \in AttrNames : a \notin p.unset => p.val[a] = q.val[a]

\* Provisioning of one light heard by W: through the watcher's check
\* (_check_and_configure_light), or _apply_visiondt_attributes itself.
Provisioned(p, how, W) ==
    Settled(IF how = "checked"
            THEN LightWatcher_on_objects_changed(Fresh(p), "", "resync", W, MaxNesting)
            ELSE apply_visiondt_attributes(Fresh(p), W, MaxNesting),
            "provision")

\* A script applies the provisioning to every light of the scene.
Provision ==
    /\ pc = "idle"
    /\ hostStage /= NoStage
    /\ prims /= <<>>
    /\ \E how \in {"checked", "direct"} :
          /\ prims' = [i \in 1..Len(prims) |->
                          IF IsLight(prims[i]) THEN Provisioned(prims[i], how, Registered)
                          ELSE prims[i]]
          /\ lastCall' = [op |-> "provision", w |-> how, noop |-> lastCall.op = "provision"]
    /\ UNCHANGED <<bootVars, edits, registrations, libVars, compVars>>

NextProvision ==
    \/ CallStart(LightSide)
    \/ CreatePrimHeard
    \/ Provision

SpecProvision == InitScene /\ [][NextProvision]_vars

\* The step is an application of the provisioning.
ProvisionStep == lastCall'.op = "provision" /\ Len(prims') = Len(prims) /\ edits' = edits

\* C16: Light Watcher provisioning is idempotent: after it has been applied
\* to the lights of the scene (through the watcher's check, or directly),
\* applying it once more in the same way leaves every light with exactly
\* the same attributes and the same values.
C16_ProvisioningIdempotent ==
    [][ProvisionStep =>
          \A i \in 1..Len(prims) :
              IsLight(prims[i]) =>
                  SameAttributes(Provisioned(prims'[i], lastCall'.w, Registered), prims'[i])]_vars

\* A freshly created bare light was provisioned twice in a row while
\* Color Sync listened: it carries the whole schema with its defaults.
C16_Witness ==
    /\ lastCall = [op |-> "provision", w |-> "direct", noop |-> TRUE]
    /\ "color" \in Registered
    /\ "light" \notin Registered
    /\ edits = 0
    /\ Len(prims) = 1
    /\ IsLight(prims[1])
    /\ prims[1].has = {LW_ATTRS[k] : k \in 1..Len(LW_ATTRS)}
    /\ prims[1].unset = LW_NOT_SET

\* ------------------------------------------------------------------------
\* Lens Sync
\* ------------------------------------------------------------------------

\* load_lens_data(lens_id) finds the lens in the library index.
load_lens_data(id, lib) == id \in lib

\* LensSync._apply_lens_profile: the native fields and the reference
\* attributes are written from the record of the lens.
apply_lens_profile(c, id) == [c EXCEPT !.profile = id, !.focal = id, !.synced = TRUE]

\* LensSync._apply_lens_from_attr
apply_lens_from_attr(c, lib) ==
    IF c.libraryId = "" \/ ~load_lens_data(c.libraryId, lib) THEN c
    ELSE apply_lens_profile(c, c.libraryId)

\* Variant: the callback does not compare the changed path with the
\* trigger attribute.
TriggersApply_NoPathFilter(c, path, kind) == c.typeName = "Camera"

\* The filters of LensSync._on_objects_changed.  path is the changed
\* attribute, "" for the path of the node itself; the node of a resynced
\* attribute path is not found by stage.GetPrimAtPath.
TriggersApply(c, path, kind) ==
    IF kind = "info" THEN path = LENS_ID_ATTR /\ c.typeName = "Camera"
    ELSE path = "" /\ c.typeName = "Camera" /\ c.libraryId /= ""

LensSync_on_objects_changed(c, path, kind, lib) ==
    IF TriggersApply(c, path, kind) THEN apply_lens_from_attr(c, lib) ELSE c

\* Lens Sync has a live registration on the current scene.
LensSyncRegistered ==
    /\ hostStage /= NoStage
    /\ \E k \in 1..Len(registrations["lens"]) : registrations["lens"][k] = hostStage

\* The camera after the scene change op, delivered as a notice of the given
\* kind for the given path.
CameraHeard(c, op, path, kind) ==
    IF LensSyncRegistered
    THEN LensSync_on_objects_changed([c EXCEPT !.change = op, !.synced = FALSE],
                                     path, kind, library)
    ELSE [c EXCEPT !.change = op, !.synced = FALSE]

\* The operator creates a camera or another node: a resync of its path.
CreateCamera ==
    /\ pc = "idle"
    /\ hostStage /= NoStage
    /\ camera.typeName = ""
    /\ \E t \in {"Camera", "Cube"} :
          camera' = CameraHeard([NoCamera EXCEPT !.typeName = t], "create", "", "resync")
    /\ UNCHANGED <<bootVars, sceneVars, auxVars, files, processed, library, lastImported,
                   attempts>>

\* The operator selects a catalogue entry: the library id is set.
OperatorSetLibraryId ==
    /\ pc = "idle"
    /\ hostStage /= NoStage
    /\ camera.typeName /= ""
    /\ \E v \in LibraryIdValues \ {camera.libraryId} :
          camera' = CameraHeard([camera EXCEPT !.libraryId = v], "set_library_id",
                                LENS_ID_ATTR, "info")
    /\ UNCHANGED <<bootVars, sceneVars, auxVars, files, processed, library, lastImported,
                   attempts>>

\* The operator types a focal length into the property panel.
OperatorSetFocal ==
    /\ pc = "idle"
    /\ hostStage /= NoStage
    /\ camera.typeName = "Camera"
    /\ camera.focal /= "user"
    /\ camera' = CameraHeard([camera EXCEPT !.focal = "user"], "set_other", "focalLength", "info")
    /\ UNCHANGED <<bootVars, sceneVars, auxVars, files, processed, library, lastImported,
                   attempts>>

\* A structural change resyncs the node (it is deactivated and activated
\* again, a reference is added to it, an edit of it is undone).
ResyncCamera ==
    /\ pc = "idle"
    /\ hostStage /= NoStage
    /\ camera.typeName /= ""
    /\ camera' = CameraHeard(camera, "resync", "", "resync")
    /\ UNCHANGED <<bootVars, sceneVars, auxVars, files, processed, library, lastImported,
                   attempts>>

NextLens ==
    \/ CallStart({"lens"})
    \/ CallStop({"lens"})
    \/ CreateCamera
    \/ OperatorSetLibraryId
    \/ OperatorSetFocal
    \/ ResyncCamera

SpecLens == InitScene /\ [][NextLens]_vars

\* C17 as stated: Lens Sync writes to a camera only in response to a
\* change of that camera's library id; a resync of a camera that carries a
\* library id causes no write.
C17_WritesOnlyOnLibraryIdChange == camera.synced => camera.change = "set_library_id"

\* C17, amended: Lens Sync writes to a camera only in response to a change
\* of that camera's library id or to a resync of the camera node itself,
\* and only when the id it then reads is non-empty and in the library; what
\* it writes is the profile of that id.
C17_WritesOnLibraryIdChangeOrResync ==
    camera.synced =>
        /\ camera.change \in {"set_library_id", "resync"}
        /\ camera.typeName = "Camera"
        /\ camera.libraryId /= ""
        /\ camera.libraryId \in library
        /\ camera.profile = camera.libraryId
        /\ camera.focal = camera.libraryId

\* The camera carries a library id and has been resynced: Lens Sync has
\* applied the profile again.
C17_Witness ==
    /\ camera.synced
    /\ camera.change = "resync"
    /\ camera.libraryId = "lens_stock"
    /\ camera.focal = "lens_stock"

\* ------------------------------------------------------------------------
\* Zemax File Watcher
\* ------------------------------------------------------------------------

\* An archive of the drop directory is absent, being copied with its size
\* changing ("growing"), partly copied with its size at rest for the
\* moment ("paused"), or completely written ("complete").
FileStates == {"absent", "growing", "paused", "complete"}

\* The stability check: the sizes read 100 ms apart are equal.
SizeStable(state) == state \in {"paused", "complete"}

\* LensLibrary.add_lens_from_zemax returns success: the archive parses.
ImportSucceeds(state) == state = "complete"

\* Variant: a new lens is applied to the cameras of the scene.
CamerasAfterImport_AutoApply(c, id) ==
    IF c.typeName = "Camera"
    THEN [c EXCEPT !.libraryId = id, !.profile = id, !.focal = id, !.change = "import"]
    ELSE c

\* The cameras when _process_zar_file has imported a lens: it logs the
\* parameters and leaves the scene alone (_apply_lens_to_all_cameras is
\* not called).
CamerasAfterImport(c, id) == c

\* ZemaxFileWatcher._process_zar_file on the module state st.
process_zar_file(st, f, state) ==
    IF ImportSucceeds(state)
    THEN [st EXCEPT !.library = @ \cup {LensOf(f)},
                    !.lastImported = LensOf(f),
                    !.camera = CamerasAfterImport(@, LensOf(f))]
    ELSE st

\* Variant: a path is marked only when its import succeeded.
MarkProcessed_OnSuccess(set, f, state) == IF ImportSucceeds(state) THEN set \cup {f} ELSE set

\* _processed_files.add(file_path_str) after _process_zar_file has returned.
MarkProcessed(set, f, state) == set \cup {f}

\* One iteration of the loop of _check_for_new_files.
CheckFile(st, f, fs) ==
    IF f \in st.processed THEN st
    ELSE IF ~SizeStable(fs[f]) THEN st
    ELSE [process_zar_file(st, f, fs[f]) EXCEPT
             !.processed = MarkProcessed(@, f, fs[f]),
             !.attempts[f] = Min(@ + 1, 2)]

RECURSIVE CheckFiles(_, _, _, _)
CheckFiles(st, list, i, fs) ==
    IF i > Len(list) THEN st
    ELSE CheckFiles(CheckFile(st, list[i], fs), list, i + 1, fs)

\* glob("*.ZAR") + glob("*.zar"): on a file system that ignores case both
\* patterns match every archive; each list is in an order the OS chooses.
ZarListings(fs, ignoreCase) ==
    LET present == {f \in DropFiles : fs[f] /= "absent"}
        upper == IF ignoreCase THEN present ELSE present \cap {"a.ZAR"}
        lower == IF ignoreCase THEN present ELSE present \ {"a.ZAR"}
    IN {g1 \o g2 : g1 \in Perms(upper), g2 \in Perms(lower)}

ModuleState ==
    [processed |-> processed, library |-> library, lastImported |-> lastImported,
     attempts |-> attempts, camera |-> camera]

\* ZemaxFileWatcher._check_for_new_files
check_for_new_files ==
    \E ignoreCase \in BOOLEAN :
        \E list \in ZarListings(files, ignoreCase) :
            LET st == CheckFiles(ModuleState, list, 1, files)
            IN /\ processed' = st.processed
               /\ library' = st.library
               /\ lastImported' = st.lastImported
               /\ attempts' = st.attempts
               /\ camera' = st.camera

zarIdle ==
    <<hostStage, nextStageId, stageEvents, extension, tasks, capDir, pc, caller, passStage,
      capability_files, idx, loaded_capabilities, capLog, watcherLog, result, watchers,
      lastRebind, opens, handled, lastOutcome, sceneVars, auxVars>>

\* The operator copies an archive into the drop directory.
DropFile(F) ==
    /\ \E f \in F :
          /\ files[f] = "absent"
          /\ \E s \in {"growing", "complete"} : files' = [files EXCEPT ![f] = s]
    /\ UNCHANGED <<zarIdle, zemax, camera, processed, library, lastImported, attempts>>

\* The copy goes on: it pauses, resumes or ends.
CopyProgress(F) ==
    /\ \E f \in F :
          \/ files[f] = "growing" /\ \E s \in {"paused", "complete"} : files' = [files EXCEPT ![f] = s]
          \/ files[f] = "paused" /\ files' = [files EXCEPT ![f] = "growing"]
    /\ UNCHANGED <<zarIdle, zemax, camera, processed, library, lastImported, attempts>>

\* start_watching() of the Zemax File Watcher: start() ends with a check.
ZarStartWatching ==
    /\ pc = "idle"
    /\ \E dirOk \in BOOLEAN :
          /\ zemax' = ZemaxStart(zemax, dirOk)
          /\ IF ~zemax.enabled /\ dirOk THEN check_for_new_files
             ELSE UNCHANGED <<camera, processed, library, lastImported, attempts>>
    /\ UNCHANGED <<zarIdle, files>>

\* stop_watching() of the Zemax File Watcher.
ZarStopWatching ==
    /\ pc = "idle"
    /\ zemax' = ZemaxStop(zemax)
    /\ UNCHANGED <<zarIdle, libVars>>

\* _on_update for a host update event that arrives two seconds or more
\* after the last check; an earlier event changes nothing.
ZarOnUpdate ==
    /\ pc = "idle"
    /\ zemax.subscription
    /\ zemax.enabled
    /\ check_for_new_files
    /\ UNCHANGED <<zarIdle, zemax, files>>

\* force_check() from the script console: a check when the drop directory
\* is known.
ForceCheck ==
    /\ pc = "idle"
    /\ zemax' = [zemax EXCEPT !.instance = TRUE]
    /\ \E dirOk \in BOOLEAN :
          IF dirOk THEN check_for_new_files
          ELSE UNCHANGED <<camera, processed, library, lastImported, attempts>>
    /\ UNCHANGED <<zarIdle, files>>

\* reset_processed_files()
reset_processed_files ==
    /\ pc = "idle"
    /\ processed /= {}
    /\ processed' = {}
    /\ attempts' = [f \in DropFiles |-> 0]
    /\ UNCHANGED <<zarIdle, zemax, files, camera, library, lastImported>>

\* force_process_file(path)
force_process_file(F) ==
    /\ pc = "idle"
    /\ \E f \in F :
          /\ files[f] /= "absent"
          /\ LET st == process_zar_file(ModuleState, f, files[f])
             IN /\ library' = st.library
                /\ lastImported' = st.lastImported
                /\ camera' = st.camera
    /\ zemax' = [zemax EXCEPT !.instance = TRUE]
    /\ UNCHANGED <<zarIdle, files, processed, attempts>>

\* import_zemax_file(path)
import_zemax_file(F) ==
    /\ pc = "idle"
    /\ \E f \in F :
          /\ files[f] /= "absent"
          /\ library' = IF ImportSucceeds(files[f]) THEN library \cup {LensOf(f)} ELSE library
    /\ UNCHANGED <<zarIdle, zemax, files, camera, processed, lastImported, attempts>>

NextZemax ==
    \/ DropFile(DropFiles)
    \/ CopyProgress(DropFiles)
    \/ ZarStartWatching
    \/ ZarStopWatching
    \/ ZarOnUpdate
    \/ ForceCheck
    \/ reset_processed_files

SpecZemax == InitScene /\ [][NextZemax]_vars

\* C18: between two calls of reset_processed_files the polls, whether
\* started by a host update, by start() after a rebind or by force_check,
\* attempt the import of a path at most once, and a path whose import was
\* attempted is in the processed set.
C18_ImportAttemptedAtMostOnce ==
    \A f \in DropFiles :
        /\ attempts[f] <= 1
        /\ attempts[f] = 1 => f \in processed

\* The archive a.ZAR was handled while its copy was paused and has been
\* completed since; the watcher is running and the lens is not in the
\* library.
C18_Witness ==
    /\ attempts["a.ZAR"] = 1
    /\ "a.ZAR" \in processed
    /\ files["a.ZAR"] = "complete"
    /\ zemax.enabled
    /\ "lens_a" \notin library

\* While the watcher is subscribed and enabled, host update events keep
\* arriving and the clock advances: an update that is due for a check is
\* eventually delivered.
SpecZemaxFair == SpecZemax /\ WF_vars(ZarOnUpdate)

\* C19: while the watcher is enabled and update events keep arriving, an
\* archive that is in the drop directory and completely written is
\* eventually imported into the Lens Library.
C19_StableFileEventuallyInLibrary ==
    \A f \in DropFiles :
        (files[f] = "complete" /\ zemax.enabled) ~> (LensOf(f) \in library \/ ~zemax.enabled)

\* ------------------------------------------------------------------------
\* Imports and the scene: one archive, one camera, Lens Sync.
\* ------------------------------------------------------------------------
ImportedFiles == {"a.ZAR"}

NextImport ==
    \/ DropFile(ImportedFiles)
    \/ CopyProgress(ImportedFiles)
    \/ ZarStartWatching
    \/ ZarStopWatching
    \/ ZarOnUpdate
    \/ force_process_file(ImportedFiles)
    \/ import_zemax_file(ImportedFiles)
    \/ CallStart({"lens"})
    \/ CreateCamera
    \/ OperatorSetLibraryId
    \/ ResyncCamera

SpecImport == InitScene /\ [][NextImport]_vars

\* The step changes the library, the last imported lens or the processed
\* files: a watched or a manual import has run.
ImportStep ==
    \/ library' /= library
    \/ lastImported' /= lastImported
    \/ processed' /= processed
    \/ attempts' /= attempts

RECURSIVE FindFrom(_, _, _)
FindFrom(ix, id, i) ==
    IF i > Len(ix) THEN 0
    ELSE IF ix[i].id = id THEN i
    ELSE FindFrom(ix, id, i + 1)

find_lens_by_id(L, id) == FindFrom(L.index, id, 1)

\* [l for l in index["lenses"] if l["id"] != lens_id]
WithoutId(ix, id) == SelectSeq(ix, LAMBDA e : e.id /= id)

Returned(L, op, id, overwrite, value) ==
    [L EXCEPT !.ret = [op |-> op, id |-> id, overwrite |-> overwrite, value |-> value]]

\* Variant: an existing entry is always replaced.
Refuses_Never(existing, overwrite) == FALSE

\* `if existing and not overwrite`
Refuses(existing, overwrite) == existing > 0 /\ ~overwrite

\* Variant: the cache entry is dropped before the index is saved.
AddFailedAtSave_CacheCleared(L, id) == [L EXCEPT !.cache[id] = None]

\* add_lens returns False when save_index fails: the data file and the
\* index in memory have been written, the cache is as it was.
AddFailedAtSave(L, id) == L

\* LensLibrary.add_lens.  writeOk: the data file can be written; saveOk:
\* the index document can be written.
add_lens(L, id, rec, overwrite, writeOk, saveOk) ==
    IF Refuses(find_lens_by_id(L, id), overwrite) THEN Returned(L, "add", id, overwrite, "False")
    ELSE IF ~writeOk THEN Returned(L, "add", id, overwrite, "False")
    ELSE IF ~saveOk
    THEN Returned(AddFailedAtSave(
                      [L EXCEPT !.dataFiles[sanitize_name(id)] = rec,
                                !.index = Append(WithoutId(@, id),
                                                 [id |-> id, data_path |-> sanitize_name(id),
                                                  rec |-> rec])], id),
                  "add", id, overwrite, "False")
    ELSE Returned([L EXCEPT !.dataFiles[sanitize_name(id)] = rec,
                            !.index = Append(WithoutId(@, id),
                                             [id |-> id, data_path |-> sanitize_name(id),
                                              rec |-> rec]),
                            !.disk = Append(WithoutId(L.index, id),
                                            [id |-> id, data_path |-> sanitize_name(id),
                                             rec |-> rec]),
                            !.cache[id] = None],
                  "add", id, overwrite, "True")

\* LensLibrary.remove_lens; the result of save_index is not looked at.
remove_lens(L, id, delete_files, saveOk) ==
    IF find_lens_by_id(L, id) = 0 THEN Returned(L, "remove", id, FALSE, "False")
    ELSE Returned([L EXCEPT
                      !.dataFiles[L.index[find_lens_by_id(L, id)].data_path] =
                          IF delete_files THEN None ELSE @,
                      !.index = WithoutId(@, id),
                      !.disk = IF saveOk THEN WithoutId(L.index, id) ELSE @,
                      !.cache[id] = None],
                  "remove", id, FALSE, "True")

\* LensLibrary.load_lens_data
LensLibrary_load_lens_data(L, id) ==
    IF L.cache[id] /= None THEN Returned(L, "load", id, FALSE, L.cache[id])
    ELSE IF find_lens_by_id(L, id) = 0 THEN Returned(L, "load", id, FALSE, None)
    ELSE IF L.dataFiles[L.index[find_lens_by_id(L, id)].data_path] = None
    THEN Returned(L, "load", id, FALSE, None)
    ELSE Returned([L EXCEPT !.cache[id] = L.dataFiles[L.index[find_lens_by_id(L, id)].data_path]],
                  "load", id, FALSE, L.dataFiles[L.index[find_lens_by_id(L, id)].data_path])

\* Lens files handed to the import: a lens prescription, a .zmx file whose
\* text is no prescription at all (or is empty), an archive that cannot be
\* extracted, a file of another type.
LensFiles == {"valid.zmx", "garbage.zmx", "broken.zar", "lens.txt"}

Malformed(f) == f \notin {"valid.zmx", "valid.zar"}

\* ZemaxParser.parse_file: another suffix and an archive that cannot be
\* extracted raise ZemaxParseError; a .zmx text is searched with patterns
\* and every value that is not found keeps its default.
parse_file(f) ==
    CASE f = "lens.txt" -> "parse_error"
      [] f = "broken.zar" -> "parse_error"
      [] f = "garbage.zmx" -> "parsed"
      [] OTHER -> "parsed"

\* The record the parser returns for a .zmx file.
ParsedRecord(f, rec) == IF f = "garbage.zmx" THEN "defaults" ELSE rec

\* except zemax_parser.ZemaxParseError / except Exception
ImportCatches(outcome) == outcome \in {"parse_error", "error"}

ImportOp(f) == IF Malformed(f) THEN "import_malformed" ELSE "import"

\* LensLibrary.add_lens_from_zemax with a given lens id.
add_lens_from_zemax(L, f, id, rec, overwrite, writeOk, saveOk) ==
    IF parse_file(f) /= "parsed"
    THEN Returned(L, ImportOp(f), id, overwrite,
                  IF ImportCatches(parse_file(f)) THEN "False" ELSE "raised")
    ELSE IF find_lens_by_id(L, id) > 0 /\ ~overwrite
    THEN Returned(L, ImportOp(f), id, overwrite, "False")
    ELSE Returned(add_lens(L, id, ParsedRecord(f, rec), overwrite, writeOk, saveOk),
                  ImportOp(f), id, overwrite,
                  add_lens(L, id, ParsedRecord(f, rec), overwrite, writeOk, saveOk).ret.value)

libIdle ==
    <<bootVars, sceneVars, registrations, lastCall, libVars, menus, docCache, toolCall, protoVars,
      metersPerUnit>>

LibAdd(ids) ==
    /\ \E id \in ids, rec \in LensRecords, overwrite \in BOOLEAN, writeOk \in BOOLEAN,
          saveOk \in BOOLEAN :
          lensLib' = add_lens(lensLib, id, rec, overwrite, writeOk, saveOk)
    /\ UNCHANGED libIdle

LibRemove(ids) ==
    /\ \E id \in ids, delete_files \in BOOLEAN, saveOk \in BOOLEAN :
          lensLib' = remove_lens(lensLib, id, delete_files, saveOk)
    /\ UNCHANGED libIdle

LibLoad(ids) ==
    /\ \E id \in ids : lensLib' = LensLibrary_load_lens_data(lensLib, id)
    /\ UNCHANGED libIdle

LibImport(ids) ==
    /\ \E f \in LensFiles, id \in ids, rec \in LensRecords, overwrite \in BOOLEAN,
          writeOk \in BOOLEAN, saveOk \in BOOLEAN :
          lensLib' = add_lens_from_zemax(lensLib, f, id, rec, overwrite, writeOk, saveOk)
    /\ UNCHANGED libIdle

\* A library whose callers use the ids "a b" and "a_b".
NextLibrary ==
    \/ LibAdd({Id_a_space_b, Id_a_b})
    \/ LibRemove({Id_a_space_b, Id_a_b})
    \/ LibLoad({Id_a_space_b, Id_a_b})

SpecLibrary == InitScene /\ [][NextLibrary]_vars

\* A library filled by imports of lens files under the id "c".
NextLensImport ==
    \/ LibImport({Id_c})
    \/ LibRemove({Id_c})
    \/ LibLoad({Id_c})

SpecLensImport == InitScene /\ [][NextLensImport]_vars

\* The library without its record of the last call.
Stored(L) == [index |-> L.index, disk |-> L.disk, dataFiles |-> L.dataFiles, cache |-> L.cache]

\* C21: add_lens(x, ..., overwrite=False) for an id that already has an
\* entry returns False and leaves the index, the persisted index document,
\* the data files and the cache as they were.
C21_RefusedAddChangesNothing ==
    [][\A id \in LensIds :
          (/\ find_lens_by_id(lensLib, id) > 0
           /\ lensLib'.ret.op = "add"
           /\ lensLib'.ret.id = id
           /\ ~lensLib'.ret.overwrite) =>
              lensLib'.ret.value = "False" /\ Stored(lensLib') = Stored(lensLib)]_vars

\* The lens "a_b" is stored and cached with r1, and an add without
\* overwrite has just been refused.
C21_Witness ==
    /\ lensLib.ret = [op |-> "add", id |-> Id_a_b, overwrite |-> FALSE, value |-> "False"]
    /\ find_lens_by_id(lensLib, Id_a_b) > 0
    /\ lensLib.cache[Id_a_b] = "r1"
    /\ lensLib.dataFiles[Id_a_b] = "r1"
    /\ lensLib.disk = lensLib.index

\* A library whose callers use the ids "a_b" and "c", which are their own
\* file names.
NextCache ==
    \/ LibAdd({Id_a_b, Id_c})
    \/ LibRemove({Id_a_b, Id_c})
    \/ LibLoad({Id_a_b, Id_c})

SpecCache == InitScene /\ [][NextCache]_vars

\* The data stored for the id: the record in the data file of its index
\* entry, None without an entry or without the file.
StoredData(L, id) ==
    IF find_lens_by_id(L, id) = 0 THEN None
    ELSE L.dataFiles[L.index[find_lens_by_id(L, id)].data_path]

\* C22: load_lens_data(id) returns the data most recently stored for id:
\* the record of the last add or overwrite, None after a removal.
C22_LoadReturnsStoredData ==
    [][\A id \in LensIds :
          (lensLib'.ret.op = "load" /\ lensLib'.ret.id = id) =>
              lensLib'.ret.value = StoredData(lensLib, id)]_vars

\* C23: no two index entries with different ids reference the same data
\* file.
C23_OneDataFilePerEntry ==
    \A i, j \in 1..Len(lensLib.index) :
        lensLib.index[i].id /= lensLib.index[j].id =>
            lensLib.index[i].data_path /= lensLib.index[j].data_path

\* C24: an import of a malformed lens file returns (False, message) and
\* leaves the index in memory and on disk, the data files, the cache and
\* the scene as they were.
C24_MalformedImportChangesNothing ==
    [][lensLib'.ret.op = "import_malformed" =>
           (/\ lensLib'.ret.value = "False"
            /\ Stored(lensLib') = Stored(lensLib)
            /\ UNCHANGED <<sceneVars, libVars>>)]_vars

\* ------------------------------------------------------------------------
\* The setup extension from on_startup to on_shutdown
\* ------------------------------------------------------------------------

NextSetup ==
    \/ OnStartup
    \/ OnShutdown
    \/ OpenStage
    \/ CloseStage
    \/ OnStageEvent
    \/ HostUpdate

SpecSetup == InitLoader /\ [][NextSetup]_vars

\* C25: after on_shutdown the host holds none of the registrations made by
\* on_startup: neither the scene-open subscription nor the settings
\* subscription, the menu layout, a Layout menu entry or the Help menu's
\* Documentation item.
C25_ShutdownReleasesEverything ==
    menus.phase = "shutdown" => (menus.host = {} /\ ~extension.subscription)

\* ------------------------------------------------------------------------
\* discover_capabilities and execute_capability
\* ------------------------------------------------------------------------

\* s lists, each once and ascending by name, the .py files of dir that are
\* not __init__.py and do not begin with an underscore.
ListsCapabilitiesOf(s, dir) ==
    /\ \A f \in dir :
          (EndsWithPy(f) /\ f /= F_init /\ f[1] /= Underscore) <=>
              (\E i \in 1..Len(s) : s[i] = f)
    /\ \A i \in 1..Len(s) : s[i] \in dir
    /\ \A i \in 1..(Len(s) - 1) : NameLess(s[i], s[i + 1])

\* C26: the list a pass discovers is exactly the qualifying .py files of
\* the capability directory, sorted by file name, whatever order the
\* directory listing comes in; it is empty when no file qualifies.
C26_DiscoversExactlyTheEnabledFiles ==
    [][(pc = "idle" /\ pc' /= "idle") => ListsCapabilitiesOf(capability_files', capDir)]_vars

\* The directory of the example: 00_a.py, 10_b.py, _disabled_05_c.py and
\* __init__.py (and a text file); the pass has discovered 00_a.py, 10_b.py.
C26_Witness ==
    /\ pc = "loop"
    /\ capDir = {F_00_a, F_10_b, F_disabled_05_c, F_init, F_notes_txt}
    /\ capability_files = <<F_00_a, F_10_b>>

\* Passes over 00_a.py and 10_b.py whose run functions return values of
\* every kind.
NextNormalize ==
    \/ DirectCall
    \/ RunCapability(ReturnKinds)
    \/ StopWatcher
    \/ StartWatcher
    \/ PassReturn

SpecNormalize == InitLoader /\ [][NextNormalize]_vars

\* C27 (as claimed): None or True is recorded as (True, "Success"), a
\* string s as (True, s), a two-element tuple as it is, any other value as
\* (False, "Invalid return value").
C27_OtherGivesInvalidReturnValue ==
    \A i \in 1..Len(capLog) :
        /\ capLog[i].kind \in {"ret_none", "ret_true"} =>
              (loaded_capabilities[i].success /\ loaded_capabilities[i].message = "Success")
        /\ capLog[i].kind = "ret_str" =>
              (loaded_capabilities[i].success /\ loaded_capabilities[i].message = "s")
        /\ capLog[i].kind = "ret_tuple_ok" =>
              (loaded_capabilities[i].success /\ loaded_capabilities[i].message = "m")
        /\ capLog[i].kind = "ret_tuple_fail" =>
              (~loaded_capabilities[i].success /\ loaded_capabilities[i].message = "m")
        /\ capLog[i].kind \in {"ret_false", "ret_int", "ret_tuple_3"} =>
              (/\ ~loaded_capabilities[i].success
               /\ loaded_capabilities[i].message = "Invalid return value")

\* C27 (amended): as claimed, except that any other value v is recorded as
\* (False, "Invalid return value: " followed by the text of v).
C27_OtherGivesInvalidReturnValueWithText ==
    \A i \in 1..Len(capLog) :
        /\ capLog[i].kind \in {"ret_none", "ret_true"} =>
              (loaded_capabilities[i].success /\ loaded_capabilities[i].message = "Success")
        /\ capLog[i].kind = "ret_str" =>
              (loaded_capabilities[i].success /\ loaded_capabilities[i].message = "s")
        /\ capLog[i].kind = "ret_tuple_ok" =>
              (loaded_capabilities[i].success /\ loaded_capabilities[i].message = "m")
        /\ capLog[i].kind = "ret_tuple_fail" =>
              (~loaded_capabilities[i].success /\ loaded_capabilities[i].message = "m")
        /\ capLog[i].kind \in {"ret_false", "ret_int", "ret_tuple_3"} =>
              (/\ ~loaded_capabilities[i].success
               /\ loaded_capabilities[i].message =
                      "Invalid return value: " \o ReturnText(capLog[i].kind))

\* A pass whose first capability returned True and whose second returned
\* False has recorded both.
C27_Witness ==
    /\ Len(capLog) = 2
    /\ capLog[1].kind = "ret_true"
    /\ capLog[2].kind = "ret_false"
    /\ loaded_capabilities[1].message = "Success"
    /\ loaded_capabilities[2].message = "Invalid return value: False"

\* ------------------------------------------------------------------------
\* One full pass on a fresh scene
\* ------------------------------------------------------------------------

\* A scene with linear-unit scale 1.0 in which nodes are created, scripts
\* add single attributes, and passes run.
NextFresh ==
    \/ CreatePrim
    \/ OperatorCreateAttr
    \/ ScenePass

SpecFresh == InitScene /\ [][NextFresh]_vars

\* C28: a pass on a scene with linear-unit scale 1.0 leaves the scale at
\* 0.001 and every rectangular light that had no custom attribute with the
\* four temperature attributes at 6500, iesProfile without a value, every
\* LED attribute at its default, enableColorTemperature False and the
\* native colour calculate_multispectrum_color(6500, 6500, 6500, 6500).
C28_FreshScenePass ==
    [][(/\ metersPerUnit = 1000 * TARGET_MPU
        /\ lastRebind' = hostStage
        /\ lastRebind /= hostStage) =>
          (/\ metersPerUnit' = TARGET_MPU
           /\ \A i \in 1..Len(prims) :
                 (prims[i].typeName = "RectLight" /\ prims[i].has = {}) =>
                     /\ \A a \in WATCHED_ATTRS :
                           /\ HasValue(prims'[i], a)
                           /\ prims'[i].val[a] = DEFAULT_TEMPERATURE
                     /\ A_iesProfile \in prims'[i].has
                     /\ A_iesProfile \in prims'[i].unset
                     /\ \A k \in 1..Len(LED_ATTRIBUTES) :
                           /\ HasValue(prims'[i], LED_ATTRIBUTES[k])
                           /\ prims'[i].val[LED_ATTRIBUTES[k]] = Default(LED_ATTRIBUTES[k])
                     /\ prims'[i].val[A_enableCT] = FALSE
                     /\ prims'[i].val[A_color] =
                            calculate_multispectrum_color(DEFAULT_TEMPERATURE, DEFAULT_TEMPERATURE,
                                                          DEFAULT_TEMPERATURE, DEFAULT_TEMPERATURE))]_vars

\* The pass has run on a scene with one rectangular light: the scale is
\* 0.001 and the light carries the temperature, profile and LED attributes.
C28_Witness ==
    /\ lastRebind = hostStage
    /\ metersPerUnit = TARGET_MPU
    /\ Len(prims) = 1
    /\ prims[1].typeName = "RectLight"
    /\ prims[1].has = WATCHED_ATTRS \cup {A_iesProfile} \cup {LED_ATTRIBUTES[k] : k \in 1..Len(LED_ATTRIBUTES)}
    /\ prims[1].unset = {A_iesProfile}
    /\ prims[1].val[A_color] =
           calculate_multispectrum_color(DEFAULT_TEMPERATURE, DEFAULT_TEMPERATURE,
                                         DEFAULT_TEMPERATURE, DEFAULT_TEMPERATURE)

\* ------------------------------------------------------------------------
\* The documentation cache
\* ------------------------------------------------------------------------

\* The exception reading and checking a damaged file raises.
RaisedBy(kind) ==
    CASE kind = "not_json" -> "JSONDecodeError"
      [] kind = "no_timestamp" -> "KeyError"
      [] kind \in {"not_object", "bad_timestamp"} -> "TypeError"
      [] OTHER -> "UnicodeDecodeError"

\* Variant: every exception is handled.
Handled_All(exception) == TRUE

\* except (json.JSONDecodeError, KeyError, OSError)
Handled(exception) == exception \in {"JSONDecodeError", "KeyError", "OSError"}

\* time.time() - data["timestamp"] > self.cache_duration
IsExpired(f, now) == now - f.timestamp > cache_duration

GetReturned(C, key, value) == [C EXCEPT !.ret = [op |-> "get", key |-> key, value |-> value]]

\* DocCache.get
DocCache_get(C, key) ==
    IF C.files[key].kind = "absent" THEN GetReturned(C, key, "miss")
    ELSE IF C.files[key].kind \in DamagedKinds
    THEN IF Handled(RaisedBy(C.files[key].kind))
         THEN GetReturned([C EXCEPT !.files[key] = NoFile], key, "miss")
         ELSE GetReturned(C, key, "raised")
    ELSE IF IsExpired(C.files[key], C.clock)
    THEN GetReturned([C EXCEPT !.files[key] = NoFile], key, "miss")
    ELSE GetReturned(C, key, C.files[key].value)

\* DocCache.set: a failing write is passed over in silence.
DocCache_set(C, key, value, writeOk) ==
    [C EXCEPT !.files[key] =
                  IF writeOk THEN [kind |-> "entry", timestamp |-> C.clock, value |-> value]
                  ELSE @,
              !.ret = [op |-> "set", key |-> key, value |-> value]]

cacheIdle ==
    <<bootVars, sceneVars, registrations, lastCall, libVars, lensLib, menus, toolCall, protoVars,
      metersPerUnit>>

CacheGet ==
    /\ \E key \in CacheKeys : docCache' = DocCache_get(docCache, key)
    /\ UNCHANGED cacheIdle

CacheSet ==
    /\ \E key \in CacheKeys, value \in CacheValues, writeOk \in BOOLEAN :
          docCache' = DocCache_set(docCache, key, value, writeOk)
    /\ UNCHANGED cacheIdle

\* Time passes.
CacheTick ==
    /\ docCache.clock < MaxTime
    /\ docCache' = [docCache EXCEPT !.clock = @ + 1, !.ret = NoCacheCall]
    /\ UNCHANGED cacheIdle

\* A cache file is damaged on disk.
CacheDamage ==
    /\ \E key \in CacheKeys, kind \in DamagedKinds :
          /\ docCache.files[key].kind = "entry"
          /\ docCache' = [docCache EXCEPT !.files[key] = Damaged(kind), !.ret = NoCacheCall]
    /\ UNCHANGED cacheIdle

NextCacheFiles ==
    \/ CacheGet
    \/ CacheSet
    \/ CacheTick
    \/ CacheDamage

SpecDocCache == InitScene /\ [][NextCacheFiles]_vars

\* C29: get never returns a value older than the cache duration, and a get
\* that finds the entry expired or damaged deletes its file and returns a
\* miss.
C29_ExpiredOrDamagedIsDeleted ==
    [][\A key \in CacheKeys :
          (docCache'.ret.op = "get" /\ docCache'.ret.key = key) =>
              /\ docCache'.ret.value \in CacheValues =>
                    (/\ docCache.files[key].kind = "entry"
                     /\ docCache'.ret.value = docCache.files[key].value
                     /\ docCache.clock - docCache.files[key].timestamp <= cache_duration)
              /\ (\/ docCache.files[key].kind \in DamagedKinds
                  \/ (/\ docCache.files[key].kind = "entry"
                      /\ docCache.clock - docCache.files[key].timestamp > cache_duration)) =>
                    (docCache'.ret.value = "miss" /\ docCache'.files[key] = NoFile)]_vars

\* ------------------------------------------------------------------------
\* The documentation server: call_tool
\* ------------------------------------------------------------------------

\* fetch_url: the cache first, then the network; only httpx.HTTPError is
\* caught, and get_cached is called outside the try.
fetch_url(C, key, net, writeOk) ==
    LET G == DocCache_get(C, key)
    IN  IF G.ret.value = "raised" THEN [cache |-> G, out |-> "raised"]
        ELSE IF G.ret.value \in CacheValues THEN [cache |-> G, out |-> "content"]
        ELSE IF net = "ok"
        THEN [cache |-> DocCache_set(G, key, "v1", writeOk), out |-> "content"]
        ELSE IF net = "http_error" THEN [cache |-> G, out |-> "nothing"]
        ELSE [cache |-> G, out |-> "raised"]

\* The handler of a known tool: args[...] raises KeyError on a missing
\* argument; the fetching handlers go through fetch_url, the others answer
\* from built-in text.
handle(name, C, argsOk, key, net, writeOk) ==
    IF ~argsOk THEN [cache |-> C, out |-> "raised"]
    ELSE IF name \in FetchingTools THEN fetch_url(C, key, net, writeOk)
    ELSE [cache |-> C, out |-> "content"]

\* Variant: the fetcher is obtained inside the try.
get_fetcher_raises_Guarded(T, createOk) == FALSE

\* get_fetcher: DocFetcher() is constructed on the first call, outside the
\* try of call_tool; a failing construction leaves _fetcher None.
get_fetcher_raises(T, createOk) == ~T.fetcher /\ ~createOk

\* call_tool
call_tool(T, C, name, argsOk, createOk, key, net, writeOk) ==
    IF get_fetcher_raises(T, createOk)
    THEN [tool |-> [fetcher |-> FALSE, name |-> name, result |-> "exception"], cache |-> C]
    ELSE IF name \notin ToolNames
    THEN [tool |-> [fetcher |-> TRUE, name |-> name, result |-> "Unknown tool"], cache |-> C]
    ELSE LET H == handle(name, C, argsOk, key, net, writeOk)
         IN  [tool |-> [fetcher |-> TRUE, name |-> name,
                        result |-> IF H.out = "raised" THEN "Error executing tool"
                                   ELSE "text"],
              cache |-> H.cache]

toolIdle ==
    <<bootVars, sceneVars, registrations, lastCall, libVars, lensLib, menus, metersPerUnit,
      protoVars>>

CallTool ==
    /\ \E name \in ToolNames \cup {UnknownTool}, argsOk \in BOOLEAN, createOk \in BOOLEAN,
          key \in CacheKeys, net \in NetOutcomes, writeOk \in BOOLEAN :
          LET R == call_tool(toolCall, docCache, name, argsOk, createOk, key, net, writeOk)
          IN  /\ toolCall' = R.tool
              /\ docCache' = R.cache
    /\ UNCHANGED toolIdle

NextDocServer ==
    \/ CallTool
    \/ CacheTick
    \/ CacheDamage

SpecDocServer == InitScene /\ [][NextDocServer]_vars

\* C30: a tool call never propagates an exception: whatever the tool name,
\* and whatever fails in the fetcher or in a handler, call_tool returns a
\* textual result.
C30_CallToolNeverPropagates ==
    toolCall.name /= "" => toolCall.result \in {"text", "Unknown tool", "Error executing tool"}

\* ------------------------------------------------------------------------
\* Camera Watcher and Lens Sync on one camera node, with the notices their
\* own writes cause
\* ------------------------------------------------------------------------

\* The record of a catalogue entry: its model name, focal length and first
\* radial distortion coefficient; only lens_a has distortion.
LensData(id) ==
    [model |-> id, focal_length_mm |-> "f_" \o id,
     k1 |-> IF id = "lens_a" THEN "k1_lens_a" ELSE "0"]

\* prim.HasAttribute(a) / a valid prim.GetAttribute(a).
CamValid(c, a) == a \in c.has \/ (a = A_focalLength /\ c.typeName = "Camera")

\* lens_id = prim.GetAttribute(LENS_ID_ATTR).Get(), "" when there is none.
CamLibraryId(c) ==
    IF LENS_ID_ATTR \in c.has /\ LENS_ID_ATTR \notin c.unset THEN c.val[LENS_ID_ATTR] ELSE ""

\* The node at the start of a scene change.
CamFresh(c, op) == [c EXCEPT !.op = op, !.cwRuns = 0, !.lsRuns = 0, !.overflow = FALSE]

RECURSIVE CamNotify(_, _, _, _, _, _)

\* attr.Set(v): an info-only notice for the attribute; the first value
\* written to a native attribute adds its spec, which the host reports as a
\* resync of the attribute path; a write of the stored value is dropped.
CamSet(c, a, v, lib, W, fuel) ==
    IF c.overflow THEN c
    ELSE IF a \in c.has /\ a \notin c.unset /\ c.val[a] = v THEN c
    ELSE CamNotify([c EXCEPT !.val[a] = v, !.has = @ \cup {a}, !.unset = @ \ {a}], a,
                   IF a \in c.has THEN "info" ELSE "resync", lib, W, fuel)

\* prim.CreateAttribute(a, ...): a resync of the attribute path.
CamCreateAttr(c, a, lib, W, fuel) ==
    IF c.overflow THEN c
    ELSE CamNotify([c EXCEPT !.has = @ \cup {a}, !.unset = @ \cup {a}], a, "resync", lib, W, fuel)

\* attr.SetCustomDataByKey(...): info-only notices for the attribute.
RECURSIVE CamSetMeta(_, _, _, _, _, _)
CamSetMeta(c, a, n, lib, W, fuel) ==
    IF n = 0 \/ c.overflow THEN c
    ELSE CamSetMeta(CamNotify(c, a, "info", lib, W, fuel), a, n - 1, lib, W, fuel)

\* Variant: an attribute that exists is given its default again.
CamProvisionOne_Resets(c, a, lib, W, fuel) ==
    IF a \in c.has THEN CamSet(c, a, LensDefault(a), lib, W, fuel)
    ELSE CamSetMeta(CamSet(CamCreateAttr(c, a, lib, W, fuel), a, LensDefault(a), lib, W, fuel),
                    a, 2, lib, W, fuel)

\* One iteration of the loop of _apply_lens_attributes.
CamProvisionOne(c, a, lib, W, fuel) ==
    IF a \in c.has THEN c
    ELSE CamSetMeta(CamSet(CamCreateAttr(c, a, lib, W, fuel), a, LensDefault(a), lib, W, fuel),
                    a, 2, lib, W, fuel)

RECURSIVE CamCreateMissing(_, _, _, _, _)
CamCreateMissing(c, i, lib, W, fuel) ==
    IF i > Len(LENS_ATTRIBUTES) THEN c
    ELSE CamCreateMissing(CamProvisionOne(c, LENS_ATTRIBUTES[i], lib, W, fuel), i + 1, lib, W,
                          fuel)

\* CameraWatcher._apply_lens_attributes
apply_lens_attributes(c, lib, W, fuel) ==
    CamCreateMissing([c EXCEPT !.cwRuns = @ + 1], 1, lib, W, fuel)

\* stage.GetPrimAtPath finds the node of an info-only path (through
\* GetPrimPath) and of a resynced node path, not of a resynced attribute
\* path.
FindsPrim(a, kind) == kind = "info" \/ a = ""

\* Variant: the callback does not look for the library-id attribute.
CameraGate_Open(c) == FALSE

\* _check_and_configure_camera: already configured.
CameraGate(c) == LENS_ID_ATTR \in c.has

\* CameraWatcher._on_objects_changed with _check_and_configure_camera
CameraWatcher_on_objects_changed(c, a, kind, lib, W, fuel) ==
    IF ~FindsPrim(a, kind) \/ c.typeName /= "Camera" \/ CameraGate(c) THEN c
    ELSE apply_lens_attributes(c, lib, W, fuel)

\* LensSync._set_attr
LensSync_set_attr(c, a, v, lib, W, fuel) ==
    CamSet(IF CamValid(c, a) THEN c
           ELSE CamSetMeta(CamCreateAttr(c, a, lib, W, fuel), a, 1, lib, W, fuel),
           a, v, lib, W, fuel)

\* Variant: applying the schema authors it again when it is already applied.
AuthorsSchema_Always(c) == TRUE

\* prim.ApplyAPI(name) authors the schema unless it is already applied.
AuthorsSchema(c) == ~c.api

\* camera_prim.ApplyAPI(...): a change of the applied schemas resyncs the
\* node.
CamApplyAPI(c, lib, W, fuel) ==
    IF c.overflow \/ ~AuthorsSchema(c) THEN c
    ELSE CamNotify([c EXCEPT !.api = TRUE], "", "resync", lib, W, fuel)

\* The distortion block of _apply_lens_profile: an unknown schema raises
\* and the block is left.
CamDistortion(c, d, lib, W, fuel) ==
    IF d.k1 = "0" \/ ~c.apiOk THEN c
    ELSE LensSync_set_attr(CamApplyAPI(c, lib, W, fuel), A_distortion_k1, d.k1, lib, W, fuel)

\* LensSync._apply_lens_profile
LensSync_apply_lens_profile(c, id, lib, W, fuel) ==
    LET d == LensData(id)
        c0 == [c EXCEPT !.lsRuns = @ + 1]
        c1 == CamSet(c0, A_focalLength, d.focal_length_mm, lib, W, fuel)
        c2 == LensSync_set_attr(c1, A_profileName, d.model, lib, W, fuel)
        c3 == LensSync_set_attr(c2, A_lens_k1, d.k1, lib, W, fuel)
    IN  CamDistortion(c3, d, lib, W, fuel)

\* LensSync._apply_lens_from_attr
LensSync_apply_lens_from_attr(c, lib, W, fuel) ==
    IF CamLibraryId(c) = "" \/ ~load_lens_data(CamLibraryId(c), lib) THEN c
    ELSE LensSync_apply_lens_profile(c, CamLibraryId(c), lib, W, fuel)

\* Variant: every notice of a camera applies the profile.
LensSync_on_notice_AnyPath(c, a, kind, lib, W, fuel) ==
    IF c.typeName = "Camera" THEN LensSync_apply_lens_from_attr(c, lib, W, fuel) ELSE c

\* LensSync._on_objects_changed
LensSync_on_notice(c, a, kind, lib, W, fuel) ==
    IF TriggersApply([typeName |-> c.typeName, libraryId |-> CamLibraryId(c)], a, kind)
    THEN LensSync_apply_lens_from_attr(c, lib, W, fuel)
    ELSE c

ToCameraWatcher(c, a, kind, lib, W, fuel) ==
    IF "camera" \in W THEN CameraWatcher_on_objects_changed(c, a, kind, lib, W, fuel) ELSE c

ToLensSync(c, a, kind, lib, W, fuel) ==
    IF "lens" \in W THEN LensSync_on_notice(c, a, kind, lib, W, fuel) ELSE c

CamNotify(c, a, kind, lib, W, fuel) ==
    IF c.overflow THEN c
    ELSE IF fuel = 0 THEN [c EXCEPT !.overflow = TRUE]
    ELSE ToLensSync(ToCameraWatcher(c, a, kind, lib, W, fuel - 1), a, kind, lib, W, fuel - 1)

\* Camera-side listeners registered on the scene that is current.
CameraListening ==
    {w \in {"camera", "lens"} :
        watchers[w].enabled /\ watchers[w].listener = hostStage /\ hostStage /= NoStage}

\* Values the operator types into a lens attribute.
CamEditValues(a) == IF a = LENS_ID_ATTR THEN LibraryIdValues ELSE {"user"}

\* The operator creates a camera or another node.
CreateCameraNode ==
    /\ pc = "idle"
    /\ hostStage /= NoStage
    /\ camNode.typeName = ""
    /\ \E t \in {"Camera", "Cube"}, apiOk \in BOOLEAN :
          camNode' = CamNotify(NewCameraNode(t, apiOk), "", "resync", library, CameraListening,
                               MaxNesting)
    /\ UNCHANGED <<bootVars, sceneVars, registrations, lastCall, lensLib, menus, docCache,
                   toolCall, metersPerUnit, proto, libVars>>

\* The operator edits a lens attribute of the node in the property panel.
CamOperatorSet ==
    /\ pc = "idle"
    /\ hostStage /= NoStage
    /\ camNode.typeName /= ""
    /\ edits < MaxEdits
    /\ \E a \in {LENS_ID_ATTR, A_profileName, A_lens_k1} :
          /\ a \in camNode.has
          /\ \E v \in CamEditValues(a) :
                /\ a \in camNode.unset \/ v /= camNode.val[a]
                /\ camNode' = CamSet(CamFresh(camNode, a), a, v, library, CameraListening,
                                     MaxNesting)
    /\ edits' = edits + 1
    /\ UNCHANGED <<bootVars, prims, registrations, lastCall, lensLib, menus, docCache,
                   toolCall, metersPerUnit, proto, libVars>>

\* A script adds one lens attribute to the node and gives it a value.
CamOperatorCreateAttr ==
    /\ pc = "idle"
    /\ hostStage /= NoStage
    /\ camNode.typeName /= ""
    /\ edits < MaxEdits
    /\ \E a \in {LENS_ID_ATTR, A_profileName, A_lens_k1} :
          /\ a \notin camNode.has
          /\ \E v \in CamEditValues(a) \ {""} :
                camNode' = CamSet(CamCreateAttr(CamFresh(camNode, "create_attr"), a, library,
                                                CameraListening, MaxNesting),
                                  a, v, library, CameraListening, MaxNesting)
    /\ edits' = edits + 1
    /\ UNCHANGED <<bootVars, prims, registrations, lastCall, lensLib, menus, docCache,
                   toolCall, metersPerUnit, proto, libVars>>

\* ------------------------------------------------------------------------
\* Creation of a light or a camera under the Light and Camera Watchers
\* ------------------------------------------------------------------------

NextCreation ==
    \/ CallStart({"light", "camera"})
    \/ CallStop({"light", "camera"})
    \/ CreatePrim
    \/ CreateCameraNode
    \/ CamOperatorCreateAttr

SpecCreation == InitScene /\ [][NextCreation]_vars

\* C31: the notices caused by the attribute creation of the Light Watcher
\* and of the Camera Watcher, delivered before the originating callback
\* returns, provision the node no further: the handling of one scene change
\* ends, without exhausting the nesting, with the provisioning body of the
\* watcher executed at most once.
C31_ProvisionedOnce ==
    [][/\ \A t \in PrimTypes :
             LET q == Notify(NewPrim(t), "", "resync", Listening, MaxNesting)
             IN  prims' = Append(prims, Settled(q, "create")) =>
                     (q.provisions <= 1 /\ ~q.overflow)
       /\ camNode' /= camNode => (camNode'.cwRuns <= 1 /\ ~camNode'.overflow)]_vars

C31_Witness ==
    /\ camNode.typeName = "Camera"
    /\ camNode.cwRuns = 1
    /\ LENS_ATTRIBUTES[3] \in camNode.has
    /\ \E i \in 1..Len(prims) : prims[i].typeName \in LIGHT_TYPES /\ A_blue \in prims[i].has

\* ------------------------------------------------------------------------
\* One camera under Camera Watcher and Lens Sync
\* ------------------------------------------------------------------------

NextCamera ==
    \/ CallStart({"camera", "lens"})
    \/ CallStop({"camera", "lens"})
    \/ DropFile({"a.ZAR"})
    \/ import_zemax_file({"a.ZAR"})
    \/ CreateCameraNode
    \/ CamOperatorSet
    \/ CamOperatorCreateAttr

SpecCamera == InitScene /\ [][NextCamera]_vars

\* C32: the handling of one change of a camera's library-id attribute ends,
\* without exhausting the nesting, after a bounded number of profile
\* applications (two at most: the second answers the resync caused by
\* applying the distortion schema), although the profile's own writes are
\* reported back to Lens Sync.
C32_LensSyncTerminates ==
    camNode.op = LENS_ID_ATTR => (camNode.lsRuns <= 2 /\ ~camNode.overflow)

C32_Witness ==
    /\ camNode.op = LENS_ID_ATTR
    /\ camNode.lsRuns = 2
    /\ camNode.val[A_distortion_k1] = LensData("lens_a").k1
    /\ camNode.val[A_profileName] = "lens_a"

\* ------------------------------------------------------------------------
\* Provisioning of nodes that already carry values
\* ------------------------------------------------------------------------

NextKeep ==
    \/ CreatePrim
    \/ OperatorCreateAttr
    \/ Provision
    \/ ScenePass
    \/ CreateCameraNode
    \/ CamOperatorCreateAttr

SpecKeep == InitScene /\ [][NextKeep]_vars

\* The visiondt attributes of a light that hold what the operator entered:
\* the custom attributes without the computed ones; the two SPD arrays are
\* loaded from the file while the light is in csv mode with a path.
InputAttrs(p) ==
    (CustomAttrs \ {A_spdInfo, A_computedColor, A_computedIntensity})
        \ (IF SpdMode(p) = "csv" /\ CsvPath(p) /= "" THEN ArrayAttrs ELSE {})

\* Every attribute of S that had a value on p has the same value on q.
Kept(p, q, S) == \A a \in S : HasValue(p, a) => (HasValue(q, a) /\ q.val[a] = p.val[a])

C34_LedColourSurvivesKelvinEdit ==
    [][\A i \in 1..Len(prims) :
          (/\ IsLight(prims[i])
           /\ Truthy(prims[i], A_enabled)
           /\ prims[i].val[A_color] = prims[i].val[A_computedColor]
           /\ \E a \in WATCHED_ATTRS : TemperatureEdited(i, a)) =>
              (/\ Truthy(prims'[i], A_enabled)
               /\ prims'[i].val[A_color] = prims'[i].val[A_computedColor])]_vars

\* ------------------------------------------------------------------------
\* Watched imports into the Lens Library
\* ------------------------------------------------------------------------

\* LensLibrary(): a new instance reads the index document and has an empty
\* cache.
FreshInstance(L) == [L EXCEPT !.index = L.disk, !.cache = [id \in LensIds |-> None]]

\* _generate_lens_id: the base id when no entry has it, else the base id
\* with the first numeric suffix no entry has.
RECURSIVE generate_lens_id(_, _, _)
generate_lens_id(L, base, n) ==
    IF find_lens_by_id(L, WithSuffix(base, n)) = 0 THEN WithSuffix(base, n)
    ELSE generate_lens_id(L, base, n + 1)

\* The import of _process_zar_file: a new LensLibrary, then
\* add_lens_from_zemax(path, overwrite=True) without a lens id, which the
\* library generates from the manufacturer and model of the file.
watched_import(L, f, rec, writeOk, saveOk) ==
    add_lens_from_zemax(FreshInstance(L), f, generate_lens_id(FreshInstance(L), Id_c, 0), rec,
                        TRUE, writeOk, saveOk)

\* A poll imports the archive of the drop directory: for the first time,
\* or again after reset_processed_files or a restart of the process.
WatchedImport ==
    /\ Len(lensLib.disk) < MaxImports
    /\ \E rec \in LensRecords, writeOk \in BOOLEAN, saveOk \in BOOLEAN :
          lensLib' = watched_import(lensLib, "valid.zar", rec, writeOk, saveOk)
    /\ UNCHANGED libIdle

NextWatchedImport ==
    \/ WatchedImport
    \/ LibRemove(GeneratedIds)
    \/ LibLoad(GeneratedIds)

SpecWatchedImport == InitScene /\ [][NextWatchedImport]_vars

\* C35: a watched import runs with overwrite enabled: when the lens of the
\* archive already has an entry in the catalogue, a successful import
\* replaces that entry, and the index has as many entries as before.
C35_ReimportReplacesEntry ==
    [][(/\ lensLib'.ret.op = "import"
        /\ lensLib'.ret.value = "True"
        /\ find_lens_by_id(FreshInstance(lensLib), Id_c) > 0) =>
           (/\ lensLib'.ret.id = Id_c
            /\ Len(lensLib'.disk) = Len(lensLib.disk))]_vars

\* ------------------------------------------------------------------------
\* Failed additions to the Lens Library
\* ------------------------------------------------------------------------

\* C39: add_lens is all-or-nothing: whenever it returns False (an existing
\* id without overwrite, a data file that cannot be written, an index
\* document that cannot be saved), the index in memory, the persisted
\* index document, the data files and the cache are as before the call.
C39_FailedAddChangesNothing ==
    [][(lensLib'.ret.op = "add" /\ lensLib'.ret.value = "False") =>
           Stored(lensLib') = Stored(lensLib)]_vars

\* ------------------------------------------------------------------------
\* Prototype creation watcher (PrimCreationWatcher)
\* ------------------------------------------------------------------------

\* _setup_stage_listener: registers _on_objects_changed on the stage; a new
\* attachment starts here.
setup_stage_listener(w) ==
    [w EXCEPT !.listener = TRUE, !.atAttach = w.lights, !.created = {},
              !.scheduled = [p \in ProtoPaths |-> 0]]

cleanup_stage_listener(w) == [w EXCEPT !.listener = FALSE]

\* _index_existing_lights: clear, then add every light of the stage.
index_existing_lights(w) == [w EXCEPT !.known = w.lights]

\* _initialize_watcher: `if stage: self._setup_stage_listener(stage)`.
initialize_watcher(w) == IF w.stageOpen THEN setup_stage_listener(w) ELSE w

PrimCreationWatcher_init(w) ==
    initialize_watcher([w EXCEPT !.constructed = TRUE, !.listener = FALSE, !.known = {},
                                 !.processing = FALSE])

on_stage_event(w, type) ==
    IF type = "OPENED"
    THEN IF w.stageOpen THEN index_existing_lights(setup_stage_listener(w)) ELSE w
    ELSE IF type = "CLOSED"
    THEN [cleanup_stage_listener(w) EXCEPT !.known = {}]
    ELSE w

\* The resynced paths that name a light not seen before.
NewLights(w, resynced) == {p \in resynced : p \in w.lights /\ p \notin w.known}

\* asyncio.ensure_future(self._configure_new_lights(new_lights)): the task
\* is queued; its body has not started.
EnsureFuture(w, new) ==
    [w EXCEPT !.tasks = Append(@, [lights |-> new, pc |-> "pending", stale |-> FALSE]),
              !.scheduled = [p \in ProtoPaths |-> IF p \in new THEN @[p] + 1 ELSE @[p]]]

on_objects_changed(w, resynced) ==
    IF w.processing THEN w
    ELSE IF NewLights(w, resynced) = {} THEN w
    ELSE EnsureFuture([w EXCEPT !.known = @ \cup NewLights(w, resynced)],
                      NewLights(w, resynced))

\* A notice reaches the watcher while its listener is registered.
DeliverToProto(w, resynced) == IF w.listener THEN on_objects_changed(w, resynced) ELSE w

\* _configure_new_lights up to its await: `self._processing = True`.
configure_new_lights_start(w, i) ==
    [w EXCEPT !.processing = TRUE, !.tasks[i].pc = "waiting"]

\* The lights a resumed task configures: the handles of a closed scene are
\* invalid.
ConfiguredBy(w, t) == IF t.stale THEN {} ELSE t.lights \cap w.lights

\* _configure_new_lights after the frame: every task that waited configures
\* its lights and clears the flag in its finally block.  The notices of the
\* attributes it creates carry attribute paths, at which the watcher finds
\* no node.
configure_new_lights_resume(w) ==
    [w EXCEPT !.configured =
                  @ \cup UNION {ConfiguredBy(w, w.tasks[i]) :
                                   i \in {j \in 1..Len(w.tasks) : w.tasks[j].pc = "waiting"}},
              !.processing = FALSE,
              !.tasks = SelectSeq(@, LAMBDA t : t.pc /= "waiting")]

protoIdle ==
    <<bootVars, sceneVars, registrations, lastCall, lensLib, menus, docCache, toolCall,
      metersPerUnit, camNode, libVars>>

\* The extension constructs the watcher.
ProtoConstruct ==
    /\ ~proto.constructed
    /\ proto' = PrimCreationWatcher_init(proto)
    /\ UNCHANGED protoIdle

\* The host opens a scene that holds the lights L and sends OPENED.
ProtoOpenScene ==
    /\ ~proto.stageOpen
    /\ \E L \in SUBSET ProtoPaths :
          proto' = IF proto.constructed
                   THEN on_stage_event([proto EXCEPT !.stageOpen = TRUE, !.lights = L], "OPENED")
                   ELSE [proto EXCEPT !.stageOpen = TRUE, !.lights = L]
    /\ UNCHANGED protoIdle

Closed(w) ==
    [w EXCEPT !.stageOpen = FALSE, !.lights = {}, !.configured = {}, !.created = {},
              !.atAttach = {},
              !.tasks = [i \in 1..Len(w.tasks) |-> [w.tasks[i] EXCEPT !.stale = TRUE]]]

\* The host closes the scene and sends CLOSED.
ProtoCloseScene ==
    /\ proto.stageOpen
    /\ proto' = IF proto.constructed THEN on_stage_event(Closed(proto), "CLOSED")
                ELSE Closed(proto)
    /\ UNCHANGED protoIdle

\* The operator or a script creates a light; the notice names its path.
ProtoCreateLight ==
    /\ proto.stageOpen
    /\ Len(proto.tasks) < MaxPending
    /\ \E p \in ProtoPaths \ proto.lights :
          proto' = DeliverToProto([proto EXCEPT !.lights = @ \cup {p},
                                                !.created = IF proto.listener THEN @ \cup {p}
                                                            ELSE @], {p})
    /\ UNCHANGED protoIdle

\* A change of an existing light that resyncs its node (a schema applied,
\* a reference added, its type changed).
ProtoResync ==
    /\ proto.stageOpen
    /\ Len(proto.tasks) < MaxPending
    /\ \E p \in proto.lights : proto' = DeliverToProto(proto, {p})
    /\ UNCHANGED protoIdle

\* The event loop starts the oldest queued task.
ProtoTaskStart ==
    /\ \E i \in 1..Len(proto.tasks) :
          /\ proto.tasks[i].pc = "pending"
          /\ \A j \in 1..(i - 1) : proto.tasks[j].pc /= "pending"
          /\ proto' = configure_new_lights_start(proto, i)
    /\ UNCHANGED protoIdle

\* The host advances one frame: next_update_async resolves.
ProtoFrame ==
    /\ \E i \in 1..Len(proto.tasks) : proto.tasks[i].pc = "waiting"
    /\ proto' = configure_new_lights_resume(proto)
    /\ UNCHANGED protoIdle

NextProto ==
    \/ ProtoConstruct
    \/ ProtoOpenScene
    \/ ProtoCloseScene
    \/ ProtoCreateLight
    \/ ProtoResync
    \/ ProtoTaskStart
    \/ ProtoFrame

SpecProto == InitScene /\ [][NextProto]_vars

\* The event loop runs every queued task, and host frames keep advancing.
SpecProtoFair == SpecProto /\ WF_vars(ProtoTaskStart) /\ WF_vars(ProtoFrame)

\* C36: the reentrancy flag gives mutual exclusion: at most one
\* _configure_new_lights task is pending or running at any time, and a
\* notice that arrives while a task is pending or running starts no further
\* task.
C36_OneTaskAtATime ==
    /\ [](Len(proto.tasks) <= 1)
    /\ [][Len(proto.tasks) > 0 => Len(proto'.tasks) <= Len(proto.tasks)]_vars

\* C37: every light created while the watcher is attached to the scene is
\* eventually configured (as long as it exists), also when its creation
\* notice arrives while an earlier configuration task is in progress.
C37_CreatedLightEventuallyConfigured ==
    \A p \in ProtoPaths :
        (p \in proto.created) ~> (p \in proto.configured \/ p \notin proto.lights)

\* C38: a light path is handed to a configuration task only if the light
\* did not exist when the watcher attached to the scene, and at most once
\* per attachment.
C38_OnlyNewLightsScheduledOnce ==
    \A p \in ProtoPaths :
        /\ proto.scheduled[p] > 0 => p \notin proto.atAttach
        /\ proto.scheduled[p] <= 1

\* ------------------------------------------------------------------------
\* on_shutdown after every path of on_startup
\* ------------------------------------------------------------------------

\* C40: on_shutdown completes without raising after every path of
\* on_startup, the warm-up path included, on which on_startup returns before
\* it creates a subscription, a menu or the bootstrap state.
C40_ShutdownNeverRaises == menus.phase /= "raised"

====
